---- MODULE Spec2Model ----
(***************************************************************************)
(* Wordle solver engine: feedback rounds, constraint derivation, constraint *)
(* merging and candidate filtering (src/src/constraints.py,                 *)
(* src/src/solver.py), letter statistics (src/src/stats.py), word           *)
(* recommendation (src/src/recommender.py) and the handlers of the          *)
(* application's events (src/src/ui.py).                                    *)
(*                                                                          *)
(* A word is a sequence of one-character strings.  Python positions are     *)
(* 0-based; position p of word w is w[p + 1].                               *)
(***************************************************************************)
EXTENDS Integers, Sequences, FiniteSets, TLC

VARIABLES
    pc,          \* position of the driver that calls the engine
    guess,       \* guess argument handed to FeedbackRound(...)
    feedback,    \* feedback argument handed to FeedbackRound(...)
    error,       \* exception raised by the last call, "none" when it returned
    rounds,      \* FeedbackRound objects constructed so far
    derived,     \* constraints returned by to_constraint, one per round
    merged,      \* value returned (or error raised) by the last merge
    answer,      \* hidden answer word of the game being played
    candidates,  \* list returned by the last filter_candidates call
    full_dictionary,  \* word list handed to filter_candidates and to the engines
    request,     \* arguments of the last engine call; last event of a session and its number
    recs,        \* value returned (or error raised) by the last recommend call
    trace,       \* local variables of the last recommend call; state found by the last submit
    cache,       \* LetterStats._cache: set of candidate words -> frequency table
    full_dict_stats,  \* LetterStats._full_dict_stats
    freqs,       \* value returned by the last get_position_frequencies call
    log,         \* calls made on the LetterStats object since the cache was last empty
    state        \* AppState of the running application (src/src/ui.py)

engineVars == <<full_dictionary, request, recs, trace, cache, full_dict_stats, freqs, log, state>>

vars == <<pc, guess, feedback, error, rounds, derived, merged, answer, candidates,
          full_dictionary, request, recs, trace, cache, full_dict_stats, freqs, log, state>>

\* no recommender or statistics engine has been constructed, no application
\* is running
NoEngine ==
    /\ full_dictionary = <<>>
    /\ request = <<>>
    /\ recs = <<>>
    /\ trace = <<>>
    /\ state = <<>>
    /\ cache = <<>>
    /\ full_dict_stats = <<>>
    /\ freqs = <<>>
    /\ log = <<>>

----------------------------------------------------------------------------
(* Program constants *)

WordLen == 5

GREEN == "green"
YELLOW == "yellow"
GRAY == "gray"

FeedbackColor == {GREEN, YELLOW, GRAY}

Positions == 0 .. (WordLen - 1)

\* Optional[int] None of letter_counts' max_count
None == -1

----------------------------------------------------------------------------
(* Python built-ins used by the code *)

LowerAscii ==
    {"a", "b", "c", "d", "e", "f", "g", "h", "i", "j", "k", "l", "m",
     "n", "o", "p", "q", "r", "s", "t", "u", "v", "w", "x", "y", "z"}
UpperAscii == {"A", "B"}
\* lowercase letters outside ASCII, named by code point (str.isalpha and
\* str.islower are Unicode-aware): LATIN SMALL LETTER E WITH ACUTE
LowerOther == {"U+00E9"}
\* alphabetic characters without case: a CJK ideograph
UncasedAlpha == {"U+4E2D"}
NonAlpha == {"1", "-"}

IsAlphaChar(c) == c \in LowerAscii \cup UpperAscii \cup LowerOther \cup UncasedAlpha
IsCasedChar(c) == c \in LowerAscii \cup UpperAscii \cup LowerOther
IsLowerChar(c) == c \in LowerAscii \cup LowerOther

\* str.isalpha(): non-empty and every character alphabetic
isalpha(s) == Len(s) > 0 /\ \A i \in 1 .. Len(s) : IsAlphaChar(s[i])

\* str.islower(): at least one cased character and every cased character lowercase
islower(s) ==
    /\ \E i \in 1 .. Len(s) : IsCasedChar(s[i])
    /\ \A i \in 1 .. Len(s) : IsCasedChar(s[i]) => IsLowerChar(s[i])

\* set(word)
LetterSet(w) == {w[i] : i \in 1 .. Len(w)}

\* Counter(word)[letter]
CountIn(w, letter) == Cardinality({i \in 1 .. Len(w) : w[i] = letter})

----------------------------------------------------------------------------
(* FeedbackRound.__post_init__ *)

PostInit(g, f) ==
    IF Len(g) # 5 THEN "ValueError"
    ELSE IF Len(f) # 5 THEN "ValueError"
    ELSE IF ~isalpha(g) \/ ~islower(g) THEN "ValueError"
    ELSE IF \E i \in 1 .. Len(f) : f[i] \notin FeedbackColor THEN "TypeError"
    ELSE "ok"

FeedbackRound(g, f) == [guess |-> g, feedback |-> f]

----------------------------------------------------------------------------
(* FeedbackRound.to_constraint *)

\* Step 1: positions of a letter marked with a colour
ColorPositions(r, letter, color) ==
    {p \in Positions : r.guess[p + 1] = letter /\ r.feedback[p + 1] = color}

green_count(r, letter) == Cardinality(ColorPositions(r, letter, GREEN))
yellow_count(r, letter) == Cardinality(ColorPositions(r, letter, YELLOW))
gray_count(r, letter) == Cardinality(ColorPositions(r, letter, GRAY))

\* keys of the yellow_positions / gray_positions dicts
HasYellowPositions(r, letter) == ColorPositions(r, letter, YELLOW) # {}
HasGrayPositions(r, letter) == ColorPositions(r, letter, GRAY) # {}

RoundGreens(r) ==
    [p \in {q \in Positions : r.feedback[q + 1] = GREEN} |-> r.guess[p + 1]]

\* Step 2
MinCount(r, letter) == green_count(r, letter) + yellow_count(r, letter)

\* an Absent mark read as "the letter is absent"
MaxCount_GrayMeansAbsent(r, letter) ==
    IF gray_count(r, letter) > 0 THEN 0 ELSE None

\* the cap counts the Present marks only
MaxCount_YellowOnly(r, letter) ==
    IF gray_count(r, letter) > 0 THEN yellow_count(r, letter) ELSE None

MaxCount(r, letter) ==
    IF gray_count(r, letter) > 0 THEN MinCount(r, letter) ELSE None

RoundLetterCounts(r) ==
    [letter \in LetterSet(r.guess) |-> <<MinCount(r, letter), MaxCount(r, letter)>>]

\* Step 3
\* the Absent positions are not excluded
YellowsExcluded_YellowOnly(r, letter) ==
    IF HasYellowPositions(r, letter) THEN ColorPositions(r, letter, YELLOW) ELSE {}

YellowsExcluded(r, letter) ==
    (IF HasYellowPositions(r, letter) THEN ColorPositions(r, letter, YELLOW) ELSE {})
    \cup
    (IF HasGrayPositions(r, letter) THEN ColorPositions(r, letter, GRAY) ELSE {})

RoundYellows(r) ==
    LET counts == RoundLetterCounts(r)
        keys == {letter \in LetterSet(r.guess) :
                    /\ counts[letter][1] > 0
                    /\ (HasYellowPositions(r, letter) \/ HasGrayPositions(r, letter))}
    IN  [letter \in keys |-> YellowsExcluded(r, letter)]

Constraint(g, y, lc) == [greens |-> g, yellows |-> y, letter_counts |-> lc]

EmptyConstraint == Constraint(<<>>, <<>>, <<>>)

to_constraint(r) == Constraint(RoundGreens(r), RoundYellows(r), RoundLetterCounts(r))

\* every capped letter counted as absent
grays_AnyCap(c) == {letter \in DOMAIN c.letter_counts : c.letter_counts[letter][2] # None}

\* Constraint.grays
grays(c) == {letter \in DOMAIN c.letter_counts : c.letter_counts[letter][2] = 0}

---------------------------------------------------------------------------------------------------------------------------------------------------
(* Constraint.merge *)

\* raise ValueError(...) of merge, tagged with the check that raised it
ConflictError(check) == [error |-> "ValueError", conflict |-> check]

Raised(x) == "error" \in DOMAIN x

\* the position check left out
GreenConflict_Unchecked(self, other) == FALSE

\* lines 194-202: some position of other.greens is already locked to another letter
GreenConflict(self, other) ==
    \E pos \in DOMAIN other.greens :
        pos \in DOMAIN self.greens /\ self.greens[pos] # other.greens[pos]

merged_greens(self, other) ==
    [pos \in DOMAIN self.greens \cup DOMAIN other.greens |->
        IF pos \in DOMAIN other.greens THEN other.greens[pos] ELSE self.greens[pos]]

\* lines 208-212
YellowPositions(self, other, letter) ==
    (IF letter \in DOMAIN self.yellows THEN self.yellows[letter] ELSE {})
    \cup
    (IF letter \in DOMAIN other.yellows THEN other.yellows[letter] ELSE {})

merged_yellows(self, other) ==
    LET all_letters == DOMAIN self.yellows \cup DOMAIN other.yellows
    IN  [letter \in {l \in all_letters : YellowPositions(self, other, l) # {}} |->
            YellowPositions(self, other, letter)]

\* merged greens are not tested against merged exclusions
GreenYellowConflict_Unchecked(self, other) == FALSE

\* only the other operand's greens are tested against this operand's exclusions
GreenYellowConflict_OneWay(self, other) ==
    \E pos \in DOMAIN other.greens :
        /\ other.greens[pos] \in DOMAIN self.yellows
        /\ pos \in self.yellows[other.greens[pos]]

\* lines 217-223
GreenYellowConflict(self, other) ==
    LET mg == merged_greens(self, other)
        my == merged_yellows(self, other)
    IN  \E pos \in DOMAIN mg : mg[pos] \in DOMAIN my /\ pos \in my[mg[pos]]

\* letter_counts.get(letter, (0, None))
GetCounts(c, letter) ==
    IF letter \in DOMAIN c.letter_counts THEN c.letter_counts[letter] ELSE <<0, None>>

Max(a, b) == IF a >= b THEN a ELSE b
Min(a, b) == IF a <= b THEN a ELSE b

\* this operand's minimum wins whenever it knows the letter
merged_min_SelfWins(self, other, letter) ==
    IF letter \in DOMAIN self.letter_counts
    THEN GetCounts(self, letter)[1] ELSE GetCounts(other, letter)[1]

merged_min(self, other, letter) ==
    Max(GetCounts(self, letter)[1], GetCounts(other, letter)[1])

\* None on either side makes the merged maximum None
merged_max_NoneWins(self, other, letter) ==
    LET max1 == GetCounts(self, letter)[2]
        max2 == GetCounts(other, letter)[2]
    IN  IF max1 = None \/ max2 = None THEN None ELSE Min(max1, max2)

merged_max(self, other, letter) ==
    LET max1 == GetCounts(self, letter)[2]
        max2 == GetCounts(other, letter)[2]
    IN  IF max1 = None /\ max2 = None THEN None
        ELSE IF max1 = None THEN max2
        ELSE IF max2 = None THEN max1
        ELSE Min(max1, max2)

all_letters_counts(self, other) ==
    DOMAIN self.letter_counts \cup DOMAIN other.letter_counts

\* a minimum that equals the maximum is taken for a conflict
CountConflict_Inclusive(self, other) ==
    \E letter \in all_letters_counts(self, other) :
        /\ merged_max(self, other, letter) # None
        /\ merged_min(self, other, letter) >= merged_max(self, other, letter)

\* lines 247-252
CountConflict(self, other) ==
    \E letter \in all_letters_counts(self, other) :
        /\ merged_max(self, other, letter) # None
        /\ merged_min(self, other, letter) > merged_max(self, other, letter)

merged_counts(self, other) ==
    [letter \in all_letters_counts(self, other) |->
        <<merged_min(self, other, letter), merged_max(self, other, letter)>>]

merge(self, other) ==
    IF GreenConflict(self, other) THEN ConflictError("green")
    ELSE IF GreenYellowConflict(self, other) THEN ConflictError("green_yellow")
    ELSE IF CountConflict(self, other) THEN ConflictError("count")
    ELSE Constraint(merged_greens(self, other),
                    merged_yellows(self, other),
                    merged_counts(self, other))

\* an exception raised while an operand is evaluated propagates: the call
\* that would have used the operand does not happen
MergeCall(x, y) ==
    IF Raised(x) THEN x ELSE IF Raised(y) THEN y ELSE merge(x, y)

\* the loop of merge_constraints over constraints[1:]
RECURSIVE MergeLoop(_, _)
MergeLoop(result, rest) ==
    IF rest = <<>> THEN result
    ELSE MergeLoop(MergeCall(result, Head(rest)), Tail(rest))

merge_constraints(constraints) ==
    IF constraints = <<>> THEN [error |-> "ValueError", conflict |-> "empty"]
    ELSE IF Len(constraints) = 1 THEN constraints[1]
    ELSE MergeLoop(constraints[1], Tail(constraints))

----------------------------------------------------------------------------
(* solver.py *)

\* the maximum of letter_counts is not tested
_matches_constraint_NoMax(word, constraint) ==
    /\ \A pos \in DOMAIN constraint.greens : word[pos + 1] = constraint.greens[pos]
    /\ \A letter \in DOMAIN constraint.yellows :
        /\ CountIn(word, letter) # 0
        /\ \A pos \in constraint.yellows[letter] : word[pos + 1] # letter
    /\ \A letter \in DOMAIN constraint.letter_counts :
        ~(CountIn(word, letter) < constraint.letter_counts[letter][1])

\* a word holding exactly the maximum is rejected
_matches_constraint_MaxExclusive(word, constraint) ==
    /\ \A pos \in DOMAIN constraint.greens : word[pos + 1] = constraint.greens[pos]
    /\ \A letter \in DOMAIN constraint.yellows :
        /\ CountIn(word, letter) # 0
        /\ \A pos \in constraint.yellows[letter] : word[pos + 1] # letter
    /\ \A letter \in DOMAIN constraint.letter_counts :
        /\ ~(CountIn(word, letter) < constraint.letter_counts[letter][1])
        /\ ~(constraint.letter_counts[letter][2] # None
              /\ CountIn(word, letter) >= constraint.letter_counts[letter][2])

\* a letter of yellows is not required to occur in the word
_matches_constraint_NoPresence(word, constraint) ==
    /\ \A pos \in DOMAIN constraint.greens : word[pos + 1] = constraint.greens[pos]
    /\ \A letter \in DOMAIN constraint.yellows :
        \A pos \in constraint.yellows[letter] : word[pos + 1] # letter
    /\ \A letter \in DOMAIN constraint.letter_counts :
        /\ ~(CountIn(word, letter) < constraint.letter_counts[letter][1])
        /\ ~(constraint.letter_counts[letter][2] # None
              /\ CountIn(word, letter) > constraint.letter_counts[letter][2])

_matches_constraint(word, constraint) ==
    \* Rule 1
    /\ \A pos \in DOMAIN constraint.greens : word[pos + 1] = constraint.greens[pos]
    \* Rule 2
    /\ \A letter \in DOMAIN constraint.yellows :
        /\ CountIn(word, letter) # 0
        /\ \A pos \in constraint.yellows[letter] : word[pos + 1] # letter
    \* Rule 3
    /\ \A letter \in DOMAIN constraint.letter_counts :
        LET min_count == constraint.letter_counts[letter][1]
            max_count == constraint.letter_counts[letter][2]
            actual_count == CountIn(word, letter)
        IN  /\ ~(actual_count < min_count)
            /\ ~(max_count # None /\ actual_count > max_count)

\* the last matching word is lost
filter_candidates_DropLast(words, constraint) ==
    LET matching == SelectSeq(words, LAMBDA word : _matches_constraint(word, constraint))
    IN  SubSeq(matching, 1, Len(matching) - 1)

filter_candidates(words, constraint) ==
    SelectSeq(words, LAMBDA word : _matches_constraint(word, constraint))

----------------------------------------------------------------------------
(* Input domains *)

SPEED == <<"s", "p", "e", "e", "d">>

\* all words of length WordLen over a set of characters
WordsOver(chars) == [1 .. WordLen -> chars]

AllFeedback == [1 .. WordLen -> FeedbackColor]

DeriveGuesses == WordsOver({"a", "b"}) \cup {SPEED}

\* one character of each class str.isalpha / str.islower tell apart
RawChars == {"a", "B", "1", "U+00E9", "U+4E2D"}

\* how far the length of a raw argument may be from WordLen
MaxExtra == 1

RawLens == (WordLen - MaxExtra) .. (WordLen + MaxExtra)

RawGuesses == UNION {[1 .. n -> RawChars] : n \in RawLens}

\* all-gray feedback lists, and the same with one element that is no colour
RawFeedback ==
    UNION {{[i \in 1 .. n |-> GRAY]} \cup
           {[i \in 1 .. n |-> IF i = j THEN "blue" ELSE GRAY] : j \in 1 .. n} :
           n \in RawLens}

----------------------------------------------------------------------------
(* Construction of one round and derivation of its constraint *)

InitRound ==
    /\ pc = "start"
    /\ \/ guess \in DeriveGuesses /\ feedback \in AllFeedback
       \/ guess \in RawGuesses /\ feedback \in RawFeedback
    /\ error = "none"
    /\ rounds = <<>>
    /\ derived = <<>>
    /\ merged = EmptyConstraint
    /\ answer = <<>>
    /\ candidates = <<>>
    /\ NoEngine

\* FeedbackRound(guess=..., feedback=...): the dataclass runs __post_init__
Construct ==
    /\ pc = "start"
    /\ error' = (IF PostInit(guess, feedback) = "ok" THEN "none"
                 ELSE PostInit(guess, feedback))
    /\ rounds' = (IF PostInit(guess, feedback) = "ok"
                  THEN <<FeedbackRound(guess, feedback)>> ELSE rounds)
    /\ pc' = (IF PostInit(guess, feedback) = "ok" THEN "round" ELSE "rejected")
    /\ UNCHANGED <<guess, feedback, derived, merged, answer, candidates>>
    /\ UNCHANGED engineVars

ToConstraint ==
    /\ pc = "round"
    /\ derived' = <<to_constraint(rounds[1])>>
    /\ pc' = "derived"
    /\ UNCHANGED <<guess, feedback, error, rounds, merged, answer, candidates>>
    /\ UNCHANGED engineVars

NextRound == Construct \/ ToConstraint

SpecRound == InitRound /\ [][NextRound]_vars

----------------------------------------------------------------------------
(* Merging the constraints of several rounds *)

\* two guesses sharing letters at equal and at different positions
FirstGuess == <<"a", "a", "b", "c", "b">>
SecondGuess == <<"a", "c", "b", "c", "c">>

\* guesses of the folded rounds
FoldGuesses ==
    <<<<"a", "b", "a", "d", "e">>, <<"b", "a", "b", "d", "e">>, <<"a", "a", "b", "d", "e">>>>

\* columns whose colour is free in a folded round; the others are gray
FreeColumns == {1, 2}

\* longest list of rounds handed to merge_constraints
MaxRounds == 3

ColorList == <<GREEN, YELLOW, GRAY>>

NumPrefixFeedback == Len(ColorList) ^ Cardinality(FreeColumns)

\* the k-th colouring of the free columns
PrefixFeedback(k) ==
    [i \in 1 .. WordLen |->
        IF i \in FreeColumns
        THEN LET rank == Cardinality({j \in FreeColumns : j < i})
             IN  ColorList[((k \div (Len(ColorList) ^ rank)) % Len(ColorList)) + 1]
        ELSE GRAY]

NumFoldRounds == Len(FoldGuesses) * NumPrefixFeedback

FoldRound(k) ==
    FeedbackRound(FoldGuesses[(k \div NumPrefixFeedback) + 1],
                  PrefixFeedback(k % NumPrefixFeedback))

\* indices of one list per multiset of at most MaxRounds folded rounds; the
\* orders of a list are taken by the properties that speak of them
FoldIndices(n) ==
    {f \in [1 .. n -> 0 .. (NumFoldRounds - 1)] : \A i \in 1 .. n : i < n => f[i] <= f[i + 1]}

CRANE == <<"c", "r", "a", "n", "e">>
GROWS == <<"g", "r", "o", "w", "s">>

\* round1 and round2 of the module's merge example
CraneGrowsRounds ==
    <<FeedbackRound(CRANE, <<GREEN, YELLOW, YELLOW, GRAY, GRAY>>),
      FeedbackRound(GROWS, <<GRAY, GREEN, GRAY, GRAY, GRAY>>)>>

InitMerge ==
    /\ pc = "rounds"
    /\ \/ \E f1, f2 \in AllFeedback :
            rounds = <<FeedbackRound(FirstGuess, f1), FeedbackRound(SecondGuess, f2)>>
       \/ rounds = CraneGrowsRounds
       \/ \E n \in 0 .. MaxRounds : \E idx \in FoldIndices(n) :
            rounds = [i \in 1 .. n |-> FoldRound(idx[i])]
    /\ guess = <<>>
    /\ feedback = <<>>
    /\ error = "none"
    /\ derived = <<>>
    /\ merged = EmptyConstraint
    /\ answer = <<>>
    /\ candidates = <<>>
    /\ NoEngine

\* constraints = [r.to_constraint() for r in rounds]
DeriveAll ==
    /\ pc = "rounds"
    /\ derived' = [i \in 1 .. Len(rounds) |-> to_constraint(rounds[i])]
    /\ pc' = "derived"
    /\ UNCHANGED <<guess, feedback, error, rounds, merged, answer, candidates>>
    /\ UNCHANGED engineVars

\* merged = merge_constraints(constraints)
MergeAll ==
    /\ pc = "derived"
    /\ LET result == merge_constraints(derived)
       IN  /\ merged' = result
           /\ error' = (IF Raised(result) THEN "ValueError" ELSE "none")
    /\ pc' = "merged"
    /\ UNCHANGED <<guess, feedback, rounds, derived, answer, candidates>>
    /\ UNCHANGED engineVars

NextMerge == DeriveAll \/ MergeAll

SpecMerge == InitMerge /\ [][NextMerge]_vars

----------------------------------------------------------------------------
(* A game: rounds scored against a hidden answer, merged and filtered *)

\* the dictionary handed to filter_candidates: the words over {a, b}, sorted
Dictionary ==
    [k \in 1 .. (2 ^ WordLen) |->
        [i \in 1 .. WordLen |->
            IF ((k - 1) \div (2 ^ (WordLen - i))) % 2 = 0 THEN "a" ELSE "b"]]

Range(seq) == {seq[i] : i \in 1 .. Len(seq)}

\* words that are not in the dictionary
OtherWords == {<<"c", "a", "b", "a", "b">>, <<"a", "c", "c", "b", "a">>, <<"b", "b", "a", "c", "a">>}

Answers == Range(Dictionary) \cup OtherWords

Guesses ==
    {<<"a", "a", "a", "a", "a">>, <<"a", "a", "b", "a", "b">>, <<"a", "b", "b", "b", "a">>,
     <<"b", "a", "a", "b", "b">>, <<"b", "b", "a", "a", "a">>, <<"b", "a", "b", "a", "b">>,
     <<"a", "c", "a", "b", "c">>}
    \cup OtherWords

\* number of rounds played in one game
MaxGuesses == 2

\* standard Wordle scoring of a guess against an answer: exact matches are
\* Correct; a non-matching occurrence is Present while unmatched occurrences
\* of its letter remain in the answer, scanning left to right, else Absent
Score(g, a) ==
    [i \in 1 .. WordLen |->
        IF g[i] = a[i] THEN GREEN
        ELSE LET unmatched == Cardinality({j \in 1 .. WordLen : a[j] = g[i] /\ g[j] # a[j]})
                 earlier == Cardinality({j \in 1 .. (i - 1) : g[j] = g[i] /\ g[j] # a[j]})
             IN  IF earlier < unmatched THEN YELLOW ELSE GRAY]

InitGame ==
    /\ pc = "play"
    /\ answer \in Answers
    /\ guess = <<>>
    /\ feedback = <<>>
    /\ error = "none"
    /\ rounds = <<>>
    /\ derived = <<>>
    /\ merged = EmptyConstraint
    /\ candidates = Dictionary
    /\ NoEngine

\* one round: the game colours the guess, the round is constructed and
\* derived, all constraints are merged and the dictionary is filtered
Play(g) ==
    /\ pc = "play"
    /\ Len(rounds) < MaxGuesses
    /\ LET f == Score(g, answer)
           round == FeedbackRound(g, f)
           constraints == Append(derived, to_constraint(round))
           result == merge_constraints(constraints)
       IN  /\ PostInit(g, f) = "ok"
           /\ guess' = g
           /\ feedback' = f
           /\ rounds' = Append(rounds, round)
           /\ derived' = constraints
           /\ merged' = result
           /\ error' = (IF Raised(result) THEN "ValueError" ELSE "none")
           /\ pc' = (IF Raised(result) THEN "conflict" ELSE "play")
           /\ candidates' = (IF Raised(result) THEN candidates
                             ELSE filter_candidates(Dictionary, result))
    /\ UNCHANGED answer
    /\ UNCHANGED engineVars

NextGame == \E g \in Guesses : Play(g)

SpecGame == InitGame /\ [][NextGame]_vars

----------------------------------------------------------------------------
(* Filtering a word list by one constraint, and filtering the result again *)

\* test_words of the duplicate letter test of solver.py
test_words ==
    <<<<"c", "r", "e", "e", "p">>, <<"e", "m", "b", "e", "r">>, <<"e", "n", "t", "e", "r">>,
      <<"v", "e", "n", "o", "m">>, <<"p", "l", "u", "m", "b">>, <<"s", "t", "e", "e", "l">>,
      <<"b", "e", "l", "o", "w">>, <<"m", "e", "l", "o", "n">>>>

\* the same test with the word list in another order and without 'steel'
SpeedWords ==
    <<<<"v", "e", "n", "o", "m">>, <<"m", "e", "l", "o", "n">>, <<"c", "r", "e", "e", "p">>,
      <<"e", "m", "b", "e", "r">>, <<"e", "n", "t", "e", "r">>, <<"p", "l", "u", "m", "b">>,
      <<"b", "e", "l", "o", "w">>>>

FilterLists == {Dictionary, test_words, SpeedWords, <<>>}

FilterGuesses ==
    {SPEED, <<"a", "b", "a", "b", "b">>, <<"b", "b", "a", "c", "a">>, <<"e", "l", "e", "m", "e">>}

\* Constraint objects built field by field, as the dataclass allows
HandConstraints ==
    {EmptyConstraint,
     Constraint(<<>>, ("a" :> {0}), <<>>),
     Constraint(<<>>, ("e" :> {2, 3} @@ "o" :> {}), <<>>),
     Constraint((1 :> "e"), <<>>, <<>>),
     Constraint((0 :> "a" @@ 4 :> "b"), <<>>, ("b" :> <<2, 3>>)),
     Constraint(<<>>, <<>>, ("e" :> <<0, 1>> @@ "l" :> <<1, None>>)),
     Constraint(<<>>, <<>>, ("a" :> <<3, 2>>))}

InitFilter ==
    /\ pc = "ready"
    /\ full_dictionary \in FilterLists
    /\ \/ merged \in HandConstraints
       \/ \E g \in FilterGuesses, f \in AllFeedback :
            merged = to_constraint(FeedbackRound(g, f))
    /\ guess = <<>>
    /\ feedback = <<>>
    /\ error = "none"
    /\ rounds = <<>>
    /\ derived = <<>>
    /\ answer = <<>>
    /\ candidates = <<>>
    /\ request = <<>>
    /\ recs = <<>>
    /\ trace = <<>>
    /\ state = <<>>
    /\ cache = <<>>
    /\ full_dict_stats = <<>>
    /\ freqs = <<>>
    /\ log = <<>>

\* candidates = filter_candidates(words, constraint)
Filter ==
    /\ pc = "ready"
    /\ candidates' = filter_candidates(full_dictionary, merged)
    /\ pc' = "filtered"
    /\ UNCHANGED <<guess, feedback, error, rounds, derived, merged, answer>>
    /\ UNCHANGED engineVars

\* filter_candidates(candidates, constraint): the result filtered again
Refilter ==
    /\ pc = "filtered"
    /\ candidates' = filter_candidates(candidates, merged)
    /\ pc' = "refiltered"
    /\ UNCHANGED <<guess, feedback, error, rounds, derived, merged, answer>>
    /\ UNCHANGED engineVars

NextFilter == Filter \/ Refilter

SpecFilter == InitFilter /\ [][NextFilter]_vars

----------------------------------------------------------------------------
(* stats.py *)

RECURSIVE GCD(_, _)
GCD(a, b) == IF b = 0 THEN a ELSE GCD(b, a % b)

\* count / total_words: the quotient, as a fraction in lowest terms (two
\* divisions give equal floats exactly when the fractions are equal)
Frac(count, total) == <<count \div GCD(count, total), total \div GCD(count, total)>>

_compute_position_frequencies(word_list) ==
    IF word_list = <<>> THEN [pos \in Positions |-> <<>>]
    ELSE LET total_words == Len(word_list)
             position_counts(pos, letter) ==
                 Cardinality({i \in 1 .. Len(word_list) : word_list[i][pos + 1] = letter})
         IN  [pos \in Positions |->
                [letter \in {word_list[i][pos + 1] : i \in 1 .. Len(word_list)} |->
                    Frac(position_counts(pos, letter), total_words)]]

\* a frequency dictionary is an object: id tells the dictionary built at
\* initialisation (0) from those built by later computations
TableObject(id, table) == [id |-> id, table |-> table]

\* default of min_candidates_threshold
min_candidates_threshold == 5

\* the threshold test admits a list of exactly threshold - 1 words less
get_position_frequencies_OffByOne(cache_now, full_stats, fresh, candidate_list, threshold) ==
    IF Len(candidate_list) <= threshold
    THEN [result |-> full_stats, cache |-> cache_now, computed |-> FALSE]
    ELSE LET cache_key == {candidate_list[i] : i \in 1 .. Len(candidate_list)}
         IN  IF cache_key \in DOMAIN cache_now
             THEN [result |-> cache_now[cache_key], cache |-> cache_now, computed |-> FALSE]
             ELSE LET frequencies ==
                          TableObject(fresh, _compute_position_frequencies(candidate_list))
                  IN  [result |-> frequencies,
                       cache |-> (cache_key :> frequencies) @@ cache_now,
                       computed |-> TRUE]

\* the cache is keyed by the list, so another order of the same words misses
get_position_frequencies_ListKey(cache_now, full_stats, fresh, candidate_list, threshold) ==
    IF Len(candidate_list) < threshold
    THEN [result |-> full_stats, cache |-> cache_now, computed |-> FALSE]
    ELSE LET cache_key == candidate_list
         IN  IF cache_key \in DOMAIN cache_now
             THEN [result |-> cache_now[cache_key], cache |-> cache_now, computed |-> FALSE]
             ELSE LET frequencies ==
                          TableObject(fresh, _compute_position_frequencies(candidate_list))
                  IN  [result |-> frequencies,
                       cache |-> (cache_key :> frequencies) @@ cache_now,
                       computed |-> TRUE]

\* get_position_frequencies on a LetterStats whose _cache is cache_now and
\* whose _full_dict_stats is full_stats; fresh is the identity a dictionary
\* built by this call gets.  Gives the returned object, the cache after the
\* call and whether _compute_position_frequencies ran.
get_position_frequencies(cache_now, full_stats, fresh, candidate_list, threshold) ==
    IF Len(candidate_list) < threshold
    THEN [result |-> full_stats, cache |-> cache_now, computed |-> FALSE]
    ELSE LET cache_key == {candidate_list[i] : i \in 1 .. Len(candidate_list)}
         IN  IF cache_key \in DOMAIN cache_now
             THEN [result |-> cache_now[cache_key], cache |-> cache_now, computed |-> FALSE]
             ELSE LET frequencies ==
                          TableObject(fresh, _compute_position_frequencies(candidate_list))
                  IN  [result |-> frequencies,
                       cache |-> (cache_key :> frequencies) @@ cache_now,
                       computed |-> TRUE]

\* get_cache_size
get_cache_size(cache_now) == Cardinality(DOMAIN cache_now)

----------------------------------------------------------------------------
(* A LetterStats object and the calls made on it *)

StatsWords ==
    <<<<"a", "a", "b", "a", "b">>, <<"a", "b", "b", "a", "a">>, <<"b", "a", "b", "c", "a">>,
      <<"b", "b", "a", "a", "c">>, <<"c", "a", "a", "b", "b">>>>

\* number of calls made on one LetterStats object
MaxCalls == 3

ListIndexSets == {{}, {1, 2, 3}, {1, 2, 3, 4}, {2, 3, 4, 5}, {1, 2, 3, 4, 5}}

Reverse(seq) == [i \in 1 .. Len(seq) |-> seq[Len(seq) + 1 - i]]

\* the words of a list at a set of indices, in the order of the list
SubListAt(list, idx) ==
    [k \in 1 .. Cardinality(idx) |->
        list[CHOOSE i \in idx : Cardinality({j \in idx : j < i}) = k - 1]]

\* candidate lists: duplicate-free sub-lists of the dictionary, in dictionary
\* order and in the opposite order
CandidateLists ==
    {SubListAt(StatsWords, idx) : idx \in ListIndexSets}
    \cup {Reverse(SubListAt(StatsWords, idx)) : idx \in ListIndexSets}

Thresholds == {min_candidates_threshold, min_candidates_threshold - 1}

\* number of dictionaries built since the object was constructed
Built(calls) == 1 + Cardinality({i \in 1 .. Len(calls) : calls[i].computed})

\* the word list about to be handed to LetterStats(...)
InitStats ==
    /\ pc = "new"
    /\ full_dictionary \in {StatsWords, <<>>}
    /\ cache = <<>>
    /\ full_dict_stats = <<>>
    /\ freqs = <<>>
    /\ request = <<>>
    /\ log = <<>>
    /\ recs = <<>>
    /\ trace = <<>>
    /\ state = <<>>
    /\ guess = <<>>
    /\ feedback = <<>>
    /\ error = "none"
    /\ rounds = <<>>
    /\ derived = <<>>
    /\ merged = EmptyConstraint
    /\ answer = <<>>
    /\ candidates = <<>>

idleVars == <<pc, guess, feedback, error, rounds, derived, merged, answer, candidates,
              full_dictionary, recs, trace, state>>

\* stats = LetterStats(words): no test of the list, nothing raised
NewLetterStats ==
    /\ pc = "new"
    /\ cache' = <<>>
    /\ full_dict_stats' = TableObject(0, _compute_position_frequencies(full_dictionary))
    /\ error' = "none"
    /\ pc' = "stats"
    /\ UNCHANGED <<guess, feedback, rounds, derived, merged, answer, candidates,
                   full_dictionary, request, recs, trace, freqs, log, state>>

\* stats.get_position_frequencies(candidate_list, threshold)
GetPositionFrequencies(candidate_list, threshold) ==
    /\ pc = "stats"
    /\ Len(log) < MaxCalls
    /\ LET call == get_position_frequencies(cache, full_dict_stats, Built(log),
                                            candidate_list, threshold)
       IN  /\ request' = [op |-> "get_position_frequencies",
                          candidates |-> candidate_list, threshold |-> threshold]
           /\ freqs' = call.result
           /\ cache' = call.cache
           /\ log' = Append(log, [op |-> "get_position_frequencies",
                                  candidates |-> candidate_list,
                                  threshold |-> threshold,
                                  result |-> call.result,
                                  computed |-> call.computed,
                                  cached_before |-> DOMAIN cache,
                                  size_before |-> get_cache_size(cache),
                                  size_after |-> get_cache_size(call.cache)])
    /\ UNCHANGED full_dict_stats
    /\ UNCHANGED idleVars

\* the entries are left in place
ClearCache_KeepsEntries ==
    /\ pc = "stats"
    /\ Len(log) < MaxCalls
    /\ cache' = cache
    /\ request' = [op |-> "clear_cache", candidates |-> <<>>, threshold |-> 0]
    /\ log' = Append(log, [op |-> "clear_cache",
                           candidates |-> <<>>,
                           threshold |-> 0,
                           result |-> <<>>,
                           computed |-> FALSE,
                           cached_before |-> DOMAIN cache,
                           size_before |-> get_cache_size(cache),
                           size_after |-> 0])
    /\ UNCHANGED <<full_dict_stats, freqs>>
    /\ UNCHANGED idleVars

\* stats.clear_cache()
ClearCache ==
    /\ pc = "stats"
    /\ Len(log) < MaxCalls
    /\ cache' = <<>>
    /\ request' = [op |-> "clear_cache", candidates |-> <<>>, threshold |-> 0]
    /\ log' = Append(log, [op |-> "clear_cache",
                           candidates |-> <<>>,
                           threshold |-> 0,
                           result |-> <<>>,
                           computed |-> FALSE,
                           cached_before |-> DOMAIN cache,
                           size_before |-> get_cache_size(cache),
                           size_after |-> 0])
    /\ UNCHANGED <<full_dict_stats, freqs>>
    /\ UNCHANGED idleVars

NextStats ==
    \/ NewLetterStats
    \/ \E candidate_list \in CandidateLists, threshold \in Thresholds :
            GetPositionFrequencies(candidate_list, threshold)
    \/ ClearCache

SpecStats == InitStats /\ [][NextStats]_vars

----------------------------------------------------------------------------
(* recommender.py *)

POSITION_WEIGHT_MULTIPLIER == 2

DEFAULT_WEIGHTS ==
    [green |-> 10, yellow |-> 5, gray |-> -5, unused |-> 8,
     exploration |-> 12, duplicate_penalty |-> 15]

\* bonus per covered test letter in a trap situation
TRAP_BONUS == 20

\* number of greens from which trap detection is enabled
TRAP_GREENS == 3

(* Scores are sums of frequencies and whole weights; they are kept as       *)
(* fractions in lowest terms, <<numerator, denominator>>, denominator > 0.  *)
Abs(n) == IF n < 0 THEN -n ELSE n

Rat(n, d) == <<n \div GCD(Abs(n), d), d \div GCD(Abs(n), d)>>

RatAdd(x, y) == Rat(x[1] * y[2] + y[1] * x[2], x[2] * y[2])

RatLess(x, y) == x[1] * y[2] < y[1] * x[2]

\* ord(c) of a lower-case ASCII letter
Alphabet ==
    <<"a", "b", "c", "d", "e", "f", "g", "h", "i", "j", "k", "l", "m",
      "n", "o", "p", "q", "r", "s", "t", "u", "v", "w", "x", "y", "z">>

ord(c) == 96 + (CHOOSE i \in 1 .. Len(Alphabet) : Alphabet[i] = c)

\* only the first letter of each word is indexed
_build_letter_index_FirstLetter(dictionary) ==
    [letter \in {dictionary[i][1] : i \in 1 .. Len(dictionary)} |->
        {dictionary[i] : i \in {j \in 1 .. Len(dictionary) : dictionary[j][1] = letter}}]

_build_letter_index(dictionary) ==
    [letter \in UNION {LetterSet(dictionary[i]) : i \in 1 .. Len(dictionary)} |->
        {dictionary[i] : i \in {j \in 1 .. Len(dictionary) : letter \in LetterSet(dictionary[j])}}]

\* no word is excluded from the pool
_get_exploration_pool_Unfiltered(dictionary, letter_index, definitely_absent) == dictionary

_get_exploration_pool(dictionary, letter_index, definitely_absent) ==
    IF definitely_absent = {} THEN dictionary
    ELSE LET excluded ==
                 UNION {letter_index[letter] : letter \in definitely_absent \cap DOMAIN letter_index}
         IN  SelectSeq(dictionary, LAMBDA w : w \notin excluded)

_detect_trap_pattern(candidate_list, constraint) ==
    LET greens_known == Cardinality(DOMAIN constraint.greens)
    IN  IF greens_known < TRAP_GREENS
        THEN [is_trap |-> FALSE, variable_positions |-> {}, test_letters |-> {}]
        ELSE LET variable_positions == Positions \ DOMAIN constraint.greens
             IN  [is_trap |-> TRUE,
                  variable_positions |-> variable_positions,
                  test_letters |->
                      {candidate_list[i][pos + 1] :
                          i \in 1 .. Len(candidate_list), pos \in variable_positions}]

\* the ScoringContext built by recommend
ScoringContext(position_freqs, round_number, constraint, trap_info) ==
    LET green_letters == {constraint.greens[p] : p \in DOMAIN constraint.greens}
        yellow_letters == DOMAIN constraint.yellows
        gray_letters == grays(constraint)
    IN  [position_freqs |-> position_freqs,
         round_number |-> round_number,
         constraint |-> constraint,
         green_letters |-> green_letters,
         yellow_letters |-> yellow_letters,
         gray_letters |-> gray_letters,
         known_letters |-> green_letters \cup yellow_letters \cup gray_letters,
         is_trap_situation |-> trap_info.is_trap,
         trap_variable_positions |-> trap_info.variable_positions,
         trap_test_letters |-> trap_info.test_letters]

\* position_freqs[pos].get(letter, 0.0)
GetFreq(position_freqs, pos, letter) ==
    IF letter \in DOMAIN position_freqs[pos] THEN position_freqs[pos][letter] ELSE <<0, 1>>

RECURSIVE PositionSum(_, _, _)
PositionSum(word, position_freqs, pos) ==
    IF pos = WordLen THEN <<0, 1>>
    ELSE RatAdd(GetFreq(position_freqs, pos, word[pos + 1]),
                PositionSum(word, position_freqs, pos + 1))

\* the exploration terms are added whatever the category
_score_word_AlwaysExplores(word, context, is_exploration) ==
    LET unique_letters == LetterSet(word)
        sum == PositionSum(word, context.position_freqs.table, 0)
        position_score == Rat(sum[1] * POSITION_WEIGHT_MULTIPLIER, sum[2])
        state_score ==
            DEFAULT_WEIGHTS.green * Cardinality(unique_letters \cap context.green_letters)
            + DEFAULT_WEIGHTS.yellow
                * Cardinality((unique_letters \cap context.yellow_letters)
                              \ context.green_letters)
            + DEFAULT_WEIGHTS.gray
                * Cardinality((unique_letters \cap context.gray_letters)
                              \ (context.green_letters \cup context.yellow_letters))
            + DEFAULT_WEIGHTS.unused * Cardinality(unique_letters \ context.known_letters)
        exploration_bonus ==
            Cardinality(unique_letters \ context.known_letters) * DEFAULT_WEIGHTS.exploration
        known_duplicates ==
            {letter \in unique_letters \cap DOMAIN context.constraint.letter_counts :
                context.constraint.letter_counts[letter][1] > 1}
        duplicate_count ==
            Max(0, (WordLen - Cardinality(unique_letters)) - Cardinality(known_duplicates))
        duplicate_penalty == duplicate_count * DEFAULT_WEIGHTS.duplicate_penalty
        trap_coverage ==
            Cardinality({pos \in context.trap_variable_positions :
                            word[pos + 1] \in context.trap_test_letters})
        trap_bonus == trap_coverage * TRAP_BONUS
        whole ==
            state_score
            + (exploration_bonus - duplicate_penalty)
            + (IF context.is_trap_situation THEN trap_bonus ELSE 0)
    IN  RatAdd(position_score, <<whole, 1>>)

\* known duplicate letters do not reduce the duplicate count
_score_word_NoDuplicateRelief(word, context, is_exploration) ==
    LET unique_letters == LetterSet(word)
        sum == PositionSum(word, context.position_freqs.table, 0)
        position_score == Rat(sum[1] * POSITION_WEIGHT_MULTIPLIER, sum[2])
        state_score ==
            DEFAULT_WEIGHTS.green * Cardinality(unique_letters \cap context.green_letters)
            + DEFAULT_WEIGHTS.yellow
                * Cardinality((unique_letters \cap context.yellow_letters)
                              \ context.green_letters)
            + DEFAULT_WEIGHTS.gray
                * Cardinality((unique_letters \cap context.gray_letters)
                              \ (context.green_letters \cup context.yellow_letters))
            + DEFAULT_WEIGHTS.unused * Cardinality(unique_letters \ context.known_letters)
        exploration_bonus ==
            Cardinality(unique_letters \ context.known_letters) * DEFAULT_WEIGHTS.exploration
        known_duplicates ==
            {letter \in unique_letters \cap DOMAIN context.constraint.letter_counts :
                context.constraint.letter_counts[letter][1] > 1}
        duplicate_count ==
            WordLen - Cardinality(unique_letters)
        duplicate_penalty == duplicate_count * DEFAULT_WEIGHTS.duplicate_penalty
        trap_coverage ==
            Cardinality({pos \in context.trap_variable_positions :
                            word[pos + 1] \in context.trap_test_letters})
        trap_bonus == trap_coverage * TRAP_BONUS
        whole ==
            state_score
            + (IF is_exploration THEN exploration_bonus - duplicate_penalty ELSE 0)
            + (IF is_exploration /\ context.is_trap_situation THEN trap_bonus ELSE 0)
    IN  RatAdd(position_score, <<whole, 1>>)

_score_word(word, context, is_exploration) ==
    LET unique_letters == LetterSet(word)
        sum == PositionSum(word, context.position_freqs.table, 0)
        position_score == Rat(sum[1] * POSITION_WEIGHT_MULTIPLIER, sum[2])
        state_score ==
            DEFAULT_WEIGHTS.green * Cardinality(unique_letters \cap context.green_letters)
            + DEFAULT_WEIGHTS.yellow
                * Cardinality((unique_letters \cap context.yellow_letters)
                              \ context.green_letters)
            + DEFAULT_WEIGHTS.gray
                * Cardinality((unique_letters \cap context.gray_letters)
                              \ (context.green_letters \cup context.yellow_letters))
            + DEFAULT_WEIGHTS.unused * Cardinality(unique_letters \ context.known_letters)
        exploration_bonus ==
            Cardinality(unique_letters \ context.known_letters) * DEFAULT_WEIGHTS.exploration
        known_duplicates ==
            {letter \in unique_letters \cap DOMAIN context.constraint.letter_counts :
                context.constraint.letter_counts[letter][1] > 1}
        duplicate_count ==
            Max(0, (WordLen - Cardinality(unique_letters)) - Cardinality(known_duplicates))
        duplicate_penalty == duplicate_count * DEFAULT_WEIGHTS.duplicate_penalty
        trap_coverage ==
            Cardinality({pos \in context.trap_variable_positions :
                            word[pos + 1] \in context.trap_test_letters})
        trap_bonus == trap_coverage * TRAP_BONUS
        whole ==
            state_score
            + (IF is_exploration THEN exploration_bonus - duplicate_penalty ELSE 0)
            + (IF is_exploration /\ context.is_trap_situation THEN trap_bonus ELSE 0)
    IN  RatAdd(position_score, <<whole, 1>>)

RECURSIVE OrdSum(_, _)
OrdSum(word, i) == IF i > Len(word) THEN 0 ELSE ord(word[i]) + OrdSum(word, i + 1)

\* key=lambda x: (x[1], -sum(ord(c) for c in x[0])), compared as tuples
KeyGreater(x, y) ==
    \/ RatLess(y[2], x[2])
    \/ x[2] = y[2] /\ -OrdSum(x[1], 1) > -OrdSum(y[1], 1)

\* heapq.nlargest(n, items, key): the n largest by key, largest first, items
\* with equal keys in the order they have in items
nlargest(n, items) ==
    LET before(i) ==
            Cardinality({j \in 1 .. Len(items) :
                \/ KeyGreater(items[j], items[i])
                \/ ~KeyGreater(items[i], items[j]) /\ j < i})
    IN  [k \in 1 .. Min(n, Len(items)) |->
            items[CHOOSE i \in 1 .. Len(items) : before(i) = k - 1]]

\* the constraint test is left out
ValidationError_NoCountsTest(candidate_list, constraint, round_number, top_n) ==
    IF round_number < 1 THEN "round_number"
    ELSE IF top_n < 1 THEN "top_n"
    ELSE IF candidate_list = <<>> THEN "candidates"
    ELSE "none"

\* the checks at the head of recommend, in their order
ValidationError(candidate_list, constraint, round_number, top_n) ==
    IF round_number < 1 THEN "round_number"
    ELSE IF top_n < 1 THEN "top_n"
    ELSE IF candidate_list = <<>> THEN "candidates"
    ELSE IF \E letter \in DOMAIN constraint.letter_counts :
                /\ constraint.letter_counts[letter][2] # None
                /\ constraint.letter_counts[letter][1] > constraint.letter_counts[letter][2]
         THEN "constraint"
    ELSE "none"

\* recommend on a recommender over dictionary whose LetterStats has _cache
\* cache_now and _full_dict_stats full_stats.  Gives the error raised, or the
\* returned lists with the local variables of the call and the cache after it.
recommend(dictionary, cache_now, full_stats, fresh, candidate_list, constraint, round_number, top_n) ==
    LET invalid == ValidationError(candidate_list, constraint, round_number, top_n)
    IN  IF invalid # "none" THEN [error |-> "ValueError", check |-> invalid]
        ELSE
        LET definitely_absent == grays(constraint)
            exploration_pool ==
                _get_exploration_pool(dictionary, _build_letter_index(dictionary),
                                      definitely_absent)
            candidates_set == {candidate_list[i] : i \in 1 .. Len(candidate_list)}
            candidate_words == SelectSeq(candidate_list, LAMBDA w : w \in candidates_set)
            exploration_words == SelectSeq(exploration_pool, LAMBDA w : w \notin candidates_set)
            stats_call == get_position_frequencies(cache_now, full_stats, fresh,
                                                   candidate_list, min_candidates_threshold)
            trap_info == _detect_trap_pattern(candidate_list, constraint)
            context == ScoringContext(stats_call.result, round_number, constraint, trap_info)
            scored_candidates ==
                [i \in 1 .. Len(candidate_words) |->
                    <<candidate_words[i], _score_word(candidate_words[i], context, FALSE)>>]
            scored_explorations ==
                [i \in 1 .. Len(exploration_words) |->
                    <<exploration_words[i], _score_word(exploration_words[i], context, TRUE)>>]
        IN  [candidates |-> nlargest(top_n, scored_candidates),
             explorations |-> nlargest(top_n, scored_explorations),
             locals |-> [definitely_absent |-> definitely_absent,
                         exploration_pool |-> exploration_pool,
                         candidate_words |-> candidate_words,
                         exploration_words |-> exploration_words,
                         context |-> context,
                         scored_candidates |-> scored_candidates,
                         scored_explorations |-> scored_explorations],
             stats_call |-> stats_call]

----------------------------------------------------------------------------
(* A recommender over a small dictionary and the calls made on it *)

\* the dictionary of the recommender, sorted
RecWords ==
    <<<<"a", "a", "a", "a", "a">>, <<"a", "a", "b", "b", "b">>, <<"a", "b", "a", "b", "a">>,
      <<"a", "b", "b", "b", "b">>, <<"a", "b", "c", "a", "b">>, <<"b", "a", "a", "a", "a">>,
      <<"b", "a", "b", "a", "b">>, <<"b", "a", "c", "b", "a">>, <<"b", "b", "a", "a", "a">>,
      <<"b", "b", "b", "b", "b">>>>

RecGuesses == {<<"a", "b", "b", "c", "a">>, <<"b", "a", "c", "a", "a">>}

\* constraints handed to recommend: derived from one round, or built by hand
RecHandConstraints ==
    {EmptyConstraint,
     Constraint(<<>>, <<>>, ("a" :> <<3, 2>>)),
     Constraint(<<>>, <<>>, ("b" :> <<1, 0>> @@ "c" :> <<0, 0>>)),
     Constraint(<<>>, <<>>, ("a" :> <<2, None>>)),
     to_constraint(FeedbackRound(<<"a", "b", "b", "a", "b">>,
                                 <<GREEN, GREEN, GRAY, GREEN, GREEN>>))}

RoundNumbers == {0, 1}

\* largest top_n asked for
MaxTopN == 3

\* candidate lists handed to recommend with a constraint: the Phase 1
\* candidates, the same in the opposite order, the whole dictionary, no word
RecCandidateLists(constraint) ==
    {filter_candidates(RecWords, constraint),
     Reverse(filter_candidates(RecWords, constraint)),
     RecWords,
     <<>>}

\* stats = LetterStats(words); recommender = WordRecommender(words, stats)
InitRecommend ==
    /\ pc = "ready"
    /\ full_dictionary = RecWords
    /\ cache = <<>>
    /\ full_dict_stats = TableObject(0, _compute_position_frequencies(RecWords))
    /\ freqs = <<>>
    /\ log = <<>>
    /\ recs = <<>>
    /\ trace = <<>>
    /\ state = <<>>
    /\ \E constraint \in RecHandConstraints
                          \cup {to_constraint(FeedbackRound(g, f)) :
                                    g \in RecGuesses, f \in AllFeedback} :
        \E candidate_list \in RecCandidateLists(constraint) :
            \E round_number \in RoundNumbers, top_n \in 0 .. MaxTopN :
                request = [op |-> "recommend",
                           candidates |-> candidate_list,
                           constraint |-> constraint,
                           round_number |-> round_number,
                           top_n |-> top_n]
    /\ guess = <<>>
    /\ feedback = <<>>
    /\ error = "none"
    /\ rounds = <<>>
    /\ derived = <<>>
    /\ merged = EmptyConstraint
    /\ answer = <<>>
    /\ candidates = <<>>

\* recommender.recommend(candidates, constraint, round_number, top_n)
Recommend ==
    /\ pc = "ready"
    /\ LET call == recommend(full_dictionary, cache, full_dict_stats, Built(log),
                             request.candidates, request.constraint,
                             request.round_number, request.top_n)
       IN  IF Raised(call)
           THEN /\ recs' = call
                /\ error' = "ValueError"
                /\ UNCHANGED <<trace, cache, freqs, log>>
           ELSE /\ recs' = [candidates |-> call.candidates,
                            explorations |-> call.explorations]
                /\ error' = "none"
                /\ trace' = call.locals
                /\ cache' = call.stats_call.cache
                /\ freqs' = call.stats_call.result
                /\ log' = Append(log, [op |-> "get_position_frequencies",
                                       candidates |-> request.candidates,
                                       threshold |-> min_candidates_threshold,
                                       result |-> call.stats_call.result,
                                       computed |-> call.stats_call.computed,
                                       cached_before |-> DOMAIN cache,
                                       size_before |-> get_cache_size(cache),
                                       size_after |-> get_cache_size(call.stats_call.cache)])
    /\ pc' = "recommended"
    /\ UNCHANGED <<guess, feedback, rounds, derived, merged, answer, candidates,
                   full_dictionary, request, full_dict_stats, state>>

NextRecommend == Recommend

SpecRecommend == InitRecommend /\ [][NextRecommend]_vars

----------------------------------------------------------------------------
(* ui.py: the application state and the handlers of its events *)

\* rows of the history grid
NumRows == 6

GridRows == 0 .. (NumRows - 1)

\* AppState(): the fields the handlers read and write
AppState ==
    [history_grid_letters |-> [row \in GridRows |-> [col \in Positions |-> ""]],
     history_grid_colors |-> [row \in GridRows |-> [col \in Positions |-> GRAY]],
     focused_row |-> 0,
     focused_col |-> 0,
     history |-> <<>>,
     candidates |-> <<>>,
     current_constraint |-> EmptyConstraint,
     round_number |-> 1]

\* str.upper() and str.lower() of one character
upper(c) == IF c = "a" THEN "A" ELSE IF c = "b" THEN "B" ELSE c
lower(c) == IF c = "A" THEN "a" ELSE IF c = "B" THEN "b" ELSE c

\* str.isascii()
isascii(s) == \A i \in 1 .. Len(s) : s[i] \in LowerAscii \cup UpperAscii \cup NonAlpha

\* "".join(history_grid_letters[row]): empty cells add nothing
RowGuess(st, row) ==
    SelectSeq([i \in 1 .. WordLen |-> st.history_grid_letters[row][i - 1]],
              LAMBDA c : c # "")

\* history_grid_colors[row].copy()
RowFeedback(st, row) == [i \in 1 .. WordLen |-> st.history_grid_colors[row][i - 1]]

\* the test of the loop over range(6)
IsCompleteRow(st, row) ==
    LET g == RowGuess(st, row) IN Len(g) = 5 /\ isalpha(g) /\ isascii(g)

RowOrder == [i \in 1 .. NumRows |-> i - 1]

\* rounds: one FeedbackRound per complete row, in row order
CompleteRounds(st) ==
    LET complete == SelectSeq(RowOrder, LAMBDA row : IsCompleteRow(st, row))
    IN  [k \in 1 .. Len(complete) |->
            FeedbackRound(RowGuess(st, complete[k]), RowFeedback(st, complete[k]))]

\* the loop that merges round_feedback.to_constraint() into merged_constraint
RECURSIVE SubmitFold(_, _)
SubmitFold(result, rest) ==
    IF rest = <<>> THEN result
    ELSE SubmitFold(MergeCall(result, to_constraint(Head(rest))), Tail(rest))

\* the fold starts from the constraint accumulated so far
merged_constraint_FromPrevious(st, rounds_built) ==
    SubmitFold(st.current_constraint, rounds_built)

\* merged_constraint = Constraint(), then the loop
merged_constraint(st, rounds_built) == SubmitFold(EmptyConstraint, rounds_built)

\* the rounds are stored before the merge is attempted
FailedSubmit_KeepsHistory(st, rounds_built) == [st EXCEPT !.history = rounds_built]

\* the warning return and the except clauses: nothing is assigned
FailedSubmit(st, rounds_built) == st

\* the assignments after the merge loop, and the move of the focus
Submitted(st, dictionary, rounds_built, constraint) ==
    LET next_row == (Len(rounds_built) + 1) - 1
    IN  [st EXCEPT !.history = rounds_built,
                   !.current_constraint = constraint,
                   !.round_number = Len(rounds_built) + 1,
                   !.candidates = filter_candidates(dictionary, constraint),
                   !.focused_row = IF next_row < 6 THEN next_row ELSE @,
                   !.focused_col = IF next_row < 6 THEN 0 ELSE @]

\* _submit_round: the message shown ("none" when the round was accepted) and
\* the state it leaves
_submit_round(st, dictionary) ==
    LET rounds_built == CompleteRounds(st)
    IN  IF \E k \in 1 .. Len(rounds_built) :
                PostInit(rounds_built[k].guess, rounds_built[k].feedback) # "ok"
        THEN [message |-> "Error", state |-> FailedSubmit(st, <<>>)]
        ELSE IF rounds_built = <<>>
        THEN [message |-> "No Complete Rows", state |-> FailedSubmit(st, rounds_built)]
        ELSE LET constraint == merged_constraint(st, rounds_built)
             IN  IF Raised(constraint)
                 THEN [message |-> "Error", state |-> FailedSubmit(st, rounds_built)]
                 ELSE [message |-> "none",
                       state |-> Submitted(st, dictionary, rounds_built, constraint)]

\* the recommend call of _update_recommendations (top 5 of each category)
RecommendCall(st, dictionary, cache_now, full_stats) ==
    recommend(dictionary, cache_now, full_stats, 1 + get_cache_size(cache_now),
              st.candidates, st.current_constraint, st.round_number, 5)

\* the two columns shown, or the error the label shows
Shown(call) ==
    IF Raised(call) THEN call
    ELSE [candidates |-> call.candidates, explorations |-> call.explorations]

CacheAfter(call, cache_now) == IF Raised(call) THEN cache_now ELSE call.stats_call.cache

\* the words that can be double-clicked
Clickable(shown) ==
    IF Raised(shown) THEN {}
    ELSE {shown.candidates[k][1] : k \in 1 .. Len(shown.candidates)}
         \cup {shown.explorations[k][1] : k \in 1 .. Len(shown.explorations)}

----------------------------------------------------------------------------
(* A session of the application: key presses and double-clicks *)

\* the word list of the session (fewer words than a recommendation column
\* shows, so every recommended word is on screen)
UiWords ==
    <<<<"a", "b", "b", "b", "b">>, <<"b", "a", "a", "b", "a">>,
      <<"c", "a", "c", "c", "a">>, <<"c", "c", "d", "c", "d">>>>

\* letter keys pressed
TypedKeys == {"a", "B"}

Directions == {"Left", "Right", "Up", "Down"}

\* events handled in one session
MaxEvents == 5

\* WordleSolverApp.__init__
InitSession ==
    /\ pc = "session"
    /\ full_dictionary = UiWords
    /\ full_dict_stats = TableObject(0, _compute_position_frequencies(UiWords))
    /\ state = [AppState EXCEPT !.candidates = UiWords]
    /\ LET call == RecommendCall([AppState EXCEPT !.candidates = UiWords], UiWords, <<>>,
                                 TableObject(0, _compute_position_frequencies(UiWords)))
       IN  /\ recs = Shown(call)
           /\ cache = CacheAfter(call, <<>>)
    /\ request = [op |-> "start", count |-> 0]
    /\ error = "none"
    /\ trace = <<>>
    /\ freqs = <<>>
    /\ log = <<>>
    /\ guess = <<>>
    /\ feedback = <<>>
    /\ rounds = <<>>
    /\ derived = <<>>
    /\ merged = EmptyConstraint
    /\ answer = <<>>
    /\ candidates = <<>>

sessionIdle == <<pc, guess, feedback, rounds, derived, merged, answer, candidates,
                 full_dictionary, full_dict_stats, freqs, log>>

\* an event reaches its handler
Handle(op) ==
    /\ pc = "session"
    /\ request.count < MaxEvents
    /\ request' = [op |-> op, count |-> request.count + 1]
    /\ UNCHANGED sessionIdle

\* _update_recommendations on the state the handler leaves
_update_recommendations(st) ==
    LET call == RecommendCall(st, full_dictionary, cache, full_dict_stats)
    IN  /\ recs' = Shown(call)
        /\ cache' = CacheAfter(call, cache)

\* a letter key: _input_letter(key.upper())
InputLetter(key) ==
    /\ Handle("letter")
    /\ LET letter == upper(key)
           row == state.focused_row
           col == state.focused_col
       IN  state' = [state EXCEPT !.history_grid_letters[row][col] = lower(letter),
                                  !.focused_col = IF col < 4 THEN col + 1 ELSE col]
    /\ error' = "none"
    /\ trace' = <<>>
    /\ UNCHANGED <<recs, cache>>

\* space: _cycle_current_color
CycleCurrentColor ==
    /\ Handle("space")
    /\ LET row == state.focused_row
           col == state.focused_col
           current_color == state.history_grid_colors[row][col]
           next_color == IF current_color = GRAY THEN YELLOW
                         ELSE IF current_color = YELLOW THEN GREEN
                         ELSE GRAY
       IN  state' = [state EXCEPT !.history_grid_colors[row][col] = next_color]
    /\ error' = "none"
    /\ trace' = <<>>
    /\ UNCHANGED <<recs, cache>>

\* BackSpace: _delete_letter
DeleteLetter ==
    /\ Handle("BackSpace")
    /\ LET row == state.focused_row
           col == state.focused_col
       IN  state' = [state EXCEPT !.history_grid_letters[row][col] = "",
                                  !.history_grid_colors[row][col] = GRAY,
                                  !.focused_col = IF col > 0 THEN col - 1 ELSE col]
    /\ error' = "none"
    /\ trace' = <<>>
    /\ UNCHANGED <<recs, cache>>

\* an arrow key: _move_focus(direction)
MoveFocus(direction) ==
    /\ Handle(direction)
    /\ state' =
         [state EXCEPT
            !.focused_col = IF direction = "Left" THEN Max(0, @ - 1)
                            ELSE IF direction = "Right" THEN Min(4, @ + 1)
                            ELSE @,
            !.focused_row = IF direction = "Up" THEN Max(0, @ - 1)
                            ELSE IF direction = "Down" THEN Min(5, @ + 1)
                            ELSE @]
    /\ error' = "none"
    /\ trace' = <<>>
    /\ UNCHANGED <<recs, cache>>

\* a double-click on a recommended word: _fill_guess(word)
FillGuess(word) ==
    /\ word \in Clickable(recs)
    /\ Handle("double-click")
    /\ LET row == state.focused_row
       IN  state' = [state EXCEPT
                        !.history_grid_letters[row] = [col \in Positions |-> word[col + 1]],
                        !.history_grid_colors[row] = [col \in Positions |-> GRAY],
                        !.focused_col = 0]
    /\ error' = "none"
    /\ trace' = <<>>
    /\ UNCHANGED <<recs, cache>>

\* Return: _submit_round; trace keeps the state the handler found
SubmitRound ==
    /\ Handle("Return")
    /\ LET outcome == _submit_round(state, full_dictionary)
       IN  /\ state' = outcome.state
           /\ error' = outcome.message
           /\ IF outcome.message = "none"
              THEN _update_recommendations(outcome.state)
              ELSE UNCHANGED <<recs, cache>>
    /\ trace' = [before |-> state]

\* the RESET button: _reset_game
ResetGame ==
    /\ Handle("reset")
    /\ state' = [AppState EXCEPT !.candidates = full_dictionary]
    /\ _update_recommendations([AppState EXCEPT !.candidates = full_dictionary])
    /\ error' = "none"
    /\ trace' = <<>>

NextSession ==
    \/ \E key \in TypedKeys : InputLetter(key)
    \/ CycleCurrentColor
    \/ DeleteLetter
    \/ \E direction \in Directions : MoveFocus(direction)
    \/ \E word \in Range(UiWords) : FillGuess(word)
    \/ SubmitRound
    \/ ResetGame

SpecSession == InitSession /\ [][NextSession]_vars

----------------------------------------------------------------------------
(* Properties of construction and derivation, checked under SpecRound *)

\* number of occurrences of a letter of the guess that carry a colour
Marks(g, f, letter, color) ==
    Cardinality({i \in 1 .. WordLen : g[i] = letter /\ f[i] = color})

\* 0-based positions where a letter of the guess carries a colour
MarkedAt(g, f, letter, color) ==
    {i - 1 : i \in {j \in 1 .. WordLen : g[j] = letter /\ f[j] = color}}

GreenYellowDuplicate == <<GRAY, GRAY, GREEN, YELLOW, GRAY>>
YellowGrayDuplicate == <<GRAY, GRAY, YELLOW, GRAY, GRAY>>

\* C2: letter_counts has exactly the distinct letters of the guess as keys;
\* min_count is the number of Correct plus Present marks of the letter and
\* max_count is min_count when some occurrence is Absent, unbounded otherwise;
\* SPEED with [Absent, Absent, Correct, Present, Absent] gives e -> (2, unbounded).
C2_LetterCounts ==
    pc = "derived" =>
        LET lc == derived[1].letter_counts
            confirmed(l) == Marks(guess, feedback, l, GREEN)
                            + Marks(guess, feedback, l, YELLOW)
        IN  /\ DOMAIN lc = {guess[i] : i \in 1 .. WordLen}
            /\ \A l \in DOMAIN lc :
                /\ lc[l][1] = confirmed(l)
                /\ lc[l][2] = (IF Marks(guess, feedback, l, GRAY) >= 1
                               THEN confirmed(l) ELSE None)
            /\ (guess = SPEED /\ feedback = GreenYellowDuplicate)
                    => lc["e"] = <<2, None>>

C2_Witness ==
    /\ pc = "derived"
    /\ guess = SPEED
    /\ feedback = GreenYellowDuplicate
    /\ derived[1].letter_counts["e"] = <<2, None>>

\* C3: yellows has an entry for a letter only if its min_count > 0, the entry
\* is exactly the positions where the letter is Present or Absent, letters
\* with min_count = 0 have no entry, and greens maps exactly the Correct
\* positions to their letters.
C3_YellowsAndGreens ==
    pc = "derived" =>
        LET c == derived[1]
            excluded(l) == MarkedAt(guess, feedback, l, YELLOW)
                           \cup MarkedAt(guess, feedback, l, GRAY)
        IN  /\ \A l \in DOMAIN c.yellows :
                /\ c.letter_counts[l][1] > 0
                /\ c.yellows[l] = excluded(l)
            /\ \A l \in DOMAIN c.letter_counts :
                /\ c.letter_counts[l][1] = 0 => l \notin DOMAIN c.yellows
                /\ (c.letter_counts[l][1] > 0 /\ excluded(l) # {})
                        => l \in DOMAIN c.yellows
            /\ DOMAIN c.greens = {p \in Positions : feedback[p + 1] = GREEN}
            /\ \A p \in DOMAIN c.greens : c.greens[p] = guess[p + 1]

\* a letter with a Correct, a Present and an Absent mark in one round
C3_Witness ==
    /\ pc = "derived"
    /\ guess = <<"a", "a", "b", "a", "b">>
    /\ feedback = <<GREEN, YELLOW, GRAY, GRAY, GRAY>>
    /\ derived[1].yellows = [l \in {"a"} |-> {1, 3}]
    /\ derived[1].greens = [p \in {0} |-> "a"]

\* C4: 'speed' with [Absent, Absent, Present, Absent, Absent] gives
\* letter_counts['e'] = (1, 1), 'e' not in grays (the letters whose max_count
\* is 0) and yellows['e'] = {2, 3}.
C4_SpeedExample ==
    (pc = "derived" /\ guess = SPEED /\ feedback = YellowGrayDuplicate) =>
        LET c == derived[1]
        IN  /\ c.letter_counts["e"] = <<1, 1>>
            /\ "e" \notin grays(c)
            /\ grays(c) = {"s", "p", "d"}
            /\ c.yellows["e"] = {2, 3}

C4_Witness ==
    /\ pc = "derived"
    /\ guess = SPEED
    /\ feedback = YellowGrayDuplicate
    /\ derived[1].yellows["e"] = {2, 3}

IsConstraint(c) ==
    /\ DOMAIN c = {"greens", "yellows", "letter_counts"}
    /\ DOMAIN c.greens \subseteq Positions
    /\ \A l \in DOMAIN c.yellows : c.yellows[l] \subseteq Positions
    /\ \A l \in DOMAIN c.letter_counts :
        /\ c.letter_counts[l][1] \in 0 .. WordLen
        /\ c.letter_counts[l][2] \in (0 .. WordLen) \cup {None}

\* C5: every round that passed validation, whatever its colours, derives
\* without error a constraint in which min_count <= max_count for every
\* bounded letter and no green position of a letter is excluded for it.
C5_DeriveTotalValid ==
    /\ pc = "round" => ENABLED ToConstraint
    /\ pc = "derived" =>
        LET c == derived[1]
        IN  /\ error = "none"
            /\ IsConstraint(c)
            /\ \A l \in DOMAIN c.letter_counts :
                c.letter_counts[l][2] # None
                    => c.letter_counts[l][1] <= c.letter_counts[l][2]
            /\ \A p \in DOMAIN c.greens :
                c.greens[p] \in DOMAIN c.yellows
                    => p \notin c.yellows[c.greens[p]]

\* feedback no game produces: Absent before Present, Correct beside Absent
C5_Witness ==
    /\ pc = "derived"
    /\ guess = <<"a", "a", "a", "b", "b">>
    /\ feedback = <<GRAY, YELLOW, GREEN, GREEN, GRAY>>
    /\ derived[1].letter_counts = [l \in {"a", "b"} |-> IF l = "a" THEN <<2, 2>> ELSE <<1, 1>>]

\* C6: constructing a FeedbackRound fails exactly when the guess length is
\* not 5, the feedback length is not 5, the guess is not made only of
\* lowercase ASCII letters, or a feedback element is not a colour.
C6_ConstructValidation ==
    pc \in {"round", "rejected"} =>
        (error # "none" <=>
            \/ Len(guess) # 5
            \/ Len(feedback) # 5
            \/ \E i \in 1 .. Len(guess) : guess[i] \notin LowerAscii
            \/ \E i \in 1 .. Len(feedback) : feedback[i] \notin FeedbackColor)

----------------------------------------------------------------------------
(* Properties of merge, checked under SpecMerge *)

\* the (position, letter) locks of a constraint
Locks(c) == {<<p, c.greens[p]>> : p \in DOMAIN c.greens}

\* the (letter, position) exclusions of a constraint
Exclusions(c) == UNION {{<<l, p>> : p \in c.yellows[l]} : l \in DOMAIN c.yellows}

PositionClash(a, b) ==
    \E x \in Locks(a), y \in Locks(b) : x[1] = y[1] /\ x[2] # y[2]

LockExcluded(a, b) ==
    \E x \in Locks(a) \cup Locks(b) : <<x[2], x[1]>> \in Exclusions(a) \cup Exclusions(b)

\* count bounds with "unbounded" as the top element and a missing letter as (0, top)
Top == WordLen + 1
LowerBound(c, l) == IF l \in DOMAIN c.letter_counts THEN c.letter_counts[l][1] ELSE 0
UpperBound(c, l) ==
    IF l \in DOMAIN c.letter_counts /\ c.letter_counts[l][2] # None
    THEN c.letter_counts[l][2] ELSE Top

Highest(S) == CHOOSE x \in S : \A y \in S : y <= x
Lowest(S) == CHOOSE x \in S : \A y \in S : x <= y

TwoMerged == pc = "merged" /\ Len(derived) = 2

\* C7: merge(A, B) raises whenever a position is locked to different letters
\* in A.greens and B.greens; when it returns, the merged greens are exactly
\* the union of the two greens maps.
C7_GreensMerge ==
    TwoMerged =>
        LET A == derived[1]
            B == derived[2]
        IN  /\ PositionClash(A, B) => (Raised(merged) /\ error = "ValueError")
            /\ ~Raised(merged) => Locks(merged) = Locks(A) \cup Locks(B)

C7_Witness ==
    /\ TwoMerged
    /\ 1 \in DOMAIN derived[1].greens
    /\ 1 \in DOMAIN derived[2].greens
    /\ derived[1].greens[1] = "a"
    /\ derived[2].greens[1] = "c"
    /\ Raised(merged)

\* C8: merge(A, B) raises whenever, after the unions of greens and of the
\* per-letter exclusion sets, a merged green (position, letter) has its
\* position in the letter's merged exclusion set, whichever operand
\* contributed the green and whichever the exclusion.
C8_GreenYellowConflict ==
    TwoMerged =>
        (LockExcluded(derived[1], derived[2]) => (Raised(merged) /\ error = "ValueError"))

\* the green comes from the first operand, the exclusion from the second
C8_Witness ==
    /\ TwoMerged
    /\ ~PositionClash(derived[1], derived[2])
    /\ \E x \in Locks(derived[1]) : <<x[2], x[1]>> \in Exclusions(derived[2])
    /\ ~ \E x \in Locks(derived[2]) : <<x[2], x[1]>> \in Exclusions(derived[1])
    /\ Raised(merged)

\* C9: when merge(A, B) returns, every letter of either letter_counts gets
\* min = max(A.min, B.min) and max = min(A.max, B.max), unbounded being
\* +infinity and a missing letter (0, unbounded); without a green or
\* green/yellow conflict, merge raises exactly when some letter would get
\* min > max.
C9_CountsMerge ==
    TwoMerged =>
        LET A == derived[1]
            B == derived[2]
            letters == DOMAIN A.letter_counts \cup DOMAIN B.letter_counts
            lo(l) == Highest({LowerBound(A, l), LowerBound(B, l)})
            hi(l) == Lowest({UpperBound(A, l), UpperBound(B, l)})
        IN  /\ ~Raised(merged) =>
                /\ DOMAIN merged.letter_counts = letters
                /\ \A l \in letters :
                    /\ merged.letter_counts[l][1] = lo(l)
                    /\ merged.letter_counts[l][2] = (IF hi(l) = Top THEN None ELSE hi(l))
            /\ (~PositionClash(A, B) /\ ~LockExcluded(A, B)) =>
                (Raised(merged) <=> \E l \in letters : lo(l) > hi(l))

\* a returned merge where one side is unbounded and the other caps the letter
C9_Witness ==
    /\ TwoMerged
    /\ ~Raised(merged)
    /\ \E l \in DOMAIN derived[1].letter_counts \cap DOMAIN derived[2].letter_counts :
        /\ derived[1].letter_counts[l] = <<1, None>>
        /\ derived[2].letter_counts[l] = <<2, 2>>
        /\ merged.letter_counts[l] = <<2, 2>>

\* both raise, or both return the same constraint
SameOutcome(x, y) ==
    \/ Raised(x) /\ Raised(y)
    \/ ~Raised(x) /\ ~Raised(y) /\ x = y

Orderings(n) ==
    {f \in [1 .. n -> 1 .. n] : \A i, j \in 1 .. n : f[i] = f[j] => i = j}

\* C10: merge is commutative and associative on constraints derived from
\* rounds (both sides raise or return equal constraints), so folding merge
\* over any permutation of the same rounds gives the same constraint or a
\* conflict in every order.
C10_MergeCommAssoc ==
    pc = "merged" =>
        LET n == Len(derived)
        IN  /\ \A i, j \in 1 .. n :
                SameOutcome(merge(derived[i], derived[j]), merge(derived[j], derived[i]))
            /\ \A i, j, k \in 1 .. n :
                (i # j /\ j # k /\ i # k) =>
                    SameOutcome(MergeCall(MergeCall(derived[i], derived[j]), derived[k]),
                                MergeCall(derived[i], MergeCall(derived[j], derived[k])))
            /\ \A f \in Orderings(n) :
                SameOutcome(merge_constraints([i \in 1 .. n |-> derived[f[i]]]), merged)

\* three different rounds whose fold returns
C10_Witness ==
    /\ pc = "merged"
    /\ Len(derived) = 3
    /\ ~Raised(merged)
    /\ derived[1] # derived[2]
    /\ derived[2] # derived[3]
    /\ derived[1] # derived[3]
    /\ DOMAIN merged.greens # {}
    /\ DOMAIN merged.yellows # {}

----------------------------------------------------------------------------
(* Properties of a game, checked under SpecGame *)

\* the word would have produced every feedback received so far
ConsistentWithRounds(w) ==
    \A i \in 1 .. Len(rounds) : Score(rounds[i].guess, w) = rounds[i].feedback

\* C1: when every feedback is the standard Wordle scoring of the guess against
\* the answer, folding merge over the derived constraints raises no conflict,
\* filter_candidates(D, merged) is exactly the words of D that score every
\* guess to the feedback received, and the answer is retained when it is in D.
C1_ExactCandidates ==
    /\ pc # "conflict"
    /\ rounds # <<>> =>
        /\ ~Raised(merged)
        /\ error = "none"
        /\ candidates = SelectSeq(Dictionary, ConsistentWithRounds)
        /\ answer \in Range(Dictionary) => answer \in Range(candidates)

\* three rounds with a duplicated letter coloured Present and Absent leave
\* the answer among several candidates
C1_Witness ==
    /\ Len(rounds) = MaxGuesses
    /\ \E i \in 1 .. Len(rounds) : \E p, q \in 1 .. WordLen :
        /\ rounds[i].guess[p] = rounds[i].guess[q]
        /\ rounds[i].feedback[p] = YELLOW
        /\ rounds[i].feedback[q] = GRAY
    /\ answer \in Range(candidates)
    /\ Len(candidates) > 1
    /\ Len(candidates) < Len(Dictionary)

----------------------------------------------------------------------------
(* The merge example of constraints.py, checked under SpecMerge *)

----------------------------------------------------------------------------
(* Properties of filtering, checked under SpecFilter *)

\* rule (1): the word has each green letter at its position
HasGreens(w, c) == \A p \in DOMAIN c.greens : w[p + 1] = c.greens[p]

\* rule (2): every letter of yellows occurs in the word, at none of the
\* positions excluded for it
HonoursYellows(w, c) ==
    \A l \in DOMAIN c.yellows :
        /\ \E i \in 1 .. WordLen : w[i] = l
        /\ ~ \E p \in c.yellows[l] : w[p + 1] = l

Occurrences(w, l) == Cardinality({i \in 1 .. WordLen : w[i] = l})

\* rule (3): every counted letter occurs between its minimum and its maximum
WithinCounts(w, c) ==
    \A l \in DOMAIN c.letter_counts :
        /\ Occurrences(w, l) >= c.letter_counts[l][1]
        /\ (c.letter_counts[l][2] = None \/ Occurrences(w, l) <= c.letter_counts[l][2])

\* the indices of a list whose words satisfy the three rules
Satisfying(D, c) ==
    {i \in 1 .. Len(D) : HasGreens(D[i], c) /\ HonoursYellows(D[i], c) /\ WithinCounts(D[i], c)}

\* a list is the sub-list of D at a set of indices, in the order of D
IsSubListAt(list, D, idx) ==
    /\ Len(list) = Cardinality(idx)
    /\ \A k \in 1 .. Len(list) :
        \E i \in idx : list[k] = D[i] /\ Cardinality({j \in idx : j < i}) = k - 1

\* C12: filter_candidates(D, C) returns exactly the words of D, in the order
\* of D, that have every green letter at its position, contain every yellows
\* letter at none of its excluded positions, and hold every counted letter
\* within its minimum and maximum; an empty constraint returns all of D.
C12_FilterRules ==
    pc = "filtered" =>
        /\ IsSubListAt(candidates, full_dictionary, Satisfying(full_dictionary, merged))
        /\ merged = EmptyConstraint => candidates = full_dictionary

\* a word is kept, one is dropped by each rule alone
C12_Witness ==
    /\ pc = "filtered"
    /\ full_dictionary = Dictionary
    /\ candidates # <<>>
    /\ \E i \in 1 .. Len(Dictionary) :
        ~HasGreens(Dictionary[i], merged) /\ HonoursYellows(Dictionary[i], merged)
            /\ WithinCounts(Dictionary[i], merged)
    /\ \E i \in 1 .. Len(Dictionary) :
        HasGreens(Dictionary[i], merged) /\ ~HonoursYellows(Dictionary[i], merged)
            /\ WithinCounts(Dictionary[i], merged)
    /\ \E i \in 1 .. Len(Dictionary) :
        HasGreens(Dictionary[i], merged) /\ HonoursYellows(Dictionary[i], merged)
            /\ ~WithinCounts(Dictionary[i], merged)

SpeedConstraint == to_constraint(FeedbackRound(SPEED, YellowGrayDuplicate))

VENOM == <<"v", "e", "n", "o", "m">>
MELON == <<"m", "e", "l", "o", "n">>
BELOW == <<"b", "e", "l", "o", "w">>

C14_Idempotent ==
    [][(pc = "filtered" /\ pc' = "refiltered") => candidates' = candidates]_vars

\* a second filtering of a list that the first one shortened
C14_Witness ==
    /\ pc = "refiltered"
    /\ Len(candidates) >= 2
    /\ Len(candidates) < Len(full_dictionary)
    /\ candidates = filter_candidates(full_dictionary, merged)

----------------------------------------------------------------------------
(* Properties of the statistics engine, checked under SpecStats *)

IsGet(entry) == entry.op = "get_position_frequencies"

WordSet(list) == {list[i] : i \in 1 .. Len(list)}

\* two get_position_frequencies calls of the log, the later one made while
\* whatever the earlier one cached is still there, on lists holding the
\* same words, with the same threshold
SameWordsCalls(i, j) ==
    /\ i < j
    /\ IsGet(log[i])
    /\ IsGet(log[j])
    /\ WordSet(log[i].candidates) = WordSet(log[j].candidates)
    /\ log[i].threshold = log[j].threshold
    /\ \A k \in (i + 1) .. (j - 1) : IsGet(log[k])

\* C19: two get_position_frequencies calls on one LetterStats object whose
\* candidate lists hold the same words, in any order, return the same
\* table; the second call computes nothing and leaves the cache size
\* unchanged, and on a list that reaches the threshold it returns the entry
\* the first call left (computed by the first call unless an earlier call
\* had cached it).
C19_CacheByWordSet ==
    \A i, j \in 1 .. Len(log) :
        SameWordsCalls(i, j) =>
            /\ log[j].result = log[i].result
            /\ ~log[j].computed
            /\ log[j].size_after = log[j].size_before
            /\ Len(log[j].candidates) >= log[j].threshold =>
                /\ log[j].result # full_dict_stats
                /\ log[i].computed \/ \E k \in 1 .. (i - 1) : log[k].result = log[i].result
                /\ log[i].size_after = log[i].size_before + (IF log[i].computed THEN 1 ELSE 0)

\* the same words in two orders: the first call computes, the second hits
C19_Witness ==
    /\ Len(log) >= 2
    /\ SameWordsCalls(1, 2)
    /\ log[1].candidates # log[2].candidates
    /\ log[1].computed
    /\ log[2].result = log[1].result
    /\ log[2].size_after = 1

\* number of words of a list with a letter at a position, over the number
\* of words, compared with a stored frequency by cross-multiplication
IsShare(frequency, list, pos, letter) ==
    frequency[1] * Len(list)
        = Cardinality({i \in 1 .. Len(list) : list[i][pos + 1] = letter}) * frequency[2]

IsGetStep == log' # log /\ request'.op = "get_position_frequencies"

\* C20: get_position_frequencies(candidates, threshold) returns the table
\* built from the full dictionary at initialisation exactly when the list has
\* fewer than threshold words, and then the cache is left as it was and a
\* cached entry for the same words is not used; otherwise the returned table
\* holds, for each position and each letter found there, the number of
\* candidate words with the letter at the position over the number of
\* candidate words.
C20_FallbackOrShares ==
    [][IsGetStep =>
        LET list == request'.candidates
        IN  /\ (freqs'.id = full_dict_stats.id) <=> (Len(list) < request'.threshold)
            /\ Len(list) < request'.threshold =>
                /\ freqs' = full_dict_stats
                /\ cache' = cache
            /\ Len(list) >= request'.threshold =>
                \A pos \in Positions :
                    /\ DOMAIN freqs'.table[pos] = {list[i][pos + 1] : i \in 1 .. Len(list)}
                    /\ \A letter \in DOMAIN freqs'.table[pos] :
                        IsShare(freqs'.table[pos][letter], list, pos, letter)
      ]_vars

\* a short list whose words are cached under a lower threshold got the
\* initial table, and the whole dictionary as candidates got a table with the
\* same frequencies that is not the initial one
C20_Witness ==
    /\ \E i \in 1 .. Len(log) :
        /\ IsGet(log[i])
        /\ Len(log[i].candidates) < log[i].threshold
        /\ WordSet(log[i].candidates) \in log[i].cached_before
        /\ log[i].result = full_dict_stats
    /\ \E j \in 1 .. Len(log) :
        /\ IsGet(log[j])
        /\ log[j].computed
        /\ log[j].result.table = full_dict_stats.table
        /\ log[j].result.id # full_dict_stats.id

----------------------------------------------------------------------------
(* Properties of recommend, checked under SpecRecommend *)

Returned == pc = "recommended" /\ ~Raised(recs)

\* the words of a list of (word, score) pairs
WordsOf(scored) == {scored[k][1] : k \in 1 .. Len(scored)}

HasGrayLetter(w) == \E i \in 1 .. WordLen : w[i] \in grays(request.constraint)

Contradictory(c) ==
    \E l \in DOMAIN c.letter_counts :
        c.letter_counts[l][2] # None /\ c.letter_counts[l][1] > c.letter_counts[l][2]

\* C16: recommend raises the validation error, with nothing scored, the
\* statistics untouched and no result, whenever round_number < 1, top_n < 1,
\* the candidate list is empty, or a letter of the constraint has a bounded
\* maximum below its minimum; otherwise it returns a result with both lists.
C16_Validation ==
    pc = "recommended" =>
        IF \/ request.round_number < 1
           \/ request.top_n < 1
           \/ Len(request.candidates) = 0
           \/ Contradictory(request.constraint)
        THEN /\ DOMAIN recs = {"error", "check"}
             /\ recs.error = "ValueError"
             /\ error = "ValueError"
             /\ trace = <<>>
             /\ freqs = <<>>
             /\ cache = <<>>
             /\ log = <<>>
        ELSE /\ DOMAIN recs = {"candidates", "explorations"}
             /\ error = "none"
             /\ Len(recs.candidates) <= request.top_n
             /\ Len(recs.explorations) <= request.top_n
             /\ Len(trace.scored_candidates) = Len(request.candidates)

\* only the constraint is wrong, and candidates were supplied
C16_Witness ==
    /\ pc = "recommended"
    /\ request.round_number >= 1
    /\ request.top_n >= 1
    /\ request.candidates # <<>>
    /\ Contradictory(request.constraint)
    /\ Raised(recs)

\* lexicographic order of words
WordBefore(v, w) ==
    \E i \in 1 .. WordLen :
        /\ ord(v[i]) < ord(w[i])
        /\ \A j \in 1 .. (i - 1) : v[j] = w[j]

\* score descending, ties by word ascending
RankedBefore(x, y) == RatLess(y[2], x[2]) \/ (x[2] = y[2] /\ WordBefore(x[1], y[1]))

\* a list is the first n items of scored in that order
IsTopByScoreThenWord(list, n, scored) ==
    /\ Len(list) = Min(n, Len(scored))
    /\ \A k \in 1 .. Len(list) :
        \E i \in 1 .. Len(scored) :
            /\ list[k] = scored[i]
            /\ Cardinality({j \in 1 .. Len(scored) : RankedBefore(scored[j], scored[i])}) = k - 1

\* C17: each returned list is the full scored list of its category sorted by
\* score descending, ties broken by word lexicographic ascending, truncated to
\* top_n; words with equal scores come in lexicographic order whatever their
\* order in the dictionary.
C17_ScoreThenWordOrder ==
    Returned =>
        /\ IsTopByScoreThenWord(recs.candidates, request.top_n, trace.scored_candidates)
        /\ IsTopByScoreThenWord(recs.explorations, request.top_n, trace.scored_explorations)

FirstCallByDefault ==
    /\ Len(log) >= 1
    /\ IsGet(log[1])
    /\ log[1].threshold = min_candidates_threshold

C22_EmptyDictionaryFails ==
    (pc = "stats" /\ full_dictionary = <<>>) => error # "none"

----------------------------------------------------------------------------
(* The scoring formula, checked under SpecRecommend *)

\* the frequency of the letter a word has at a position, 0 when the table
\* has no entry for it
TableFreq(table, w, p) ==
    IF w[p + 1] \in DOMAIN table[p] THEN table[p][w[p + 1]] ELSE <<0, 1>>

\* sum over positions p .. 4 of the frequencies, as a fraction not reduced
RECURSIVE FreqSum(_, _, _)
FreqSum(table, w, p) ==
    IF p > WordLen - 1 THEN <<0, 1>>
    ELSE LET head == TableFreq(table, w, p)
             rest == FreqSum(table, w, p + 1)
         IN  <<head[1] * rest[2] + rest[1] * head[2], head[2] * rest[2]>>

\* green (a value of greens) before yellow (a key of yellows) before gray
\* (in grays) before unused
StateWeight(l, c) ==
    IF \E p \in DOMAIN c.greens : c.greens[p] = l THEN DEFAULT_WEIGHTS.green
    ELSE IF l \in DOMAIN c.yellows THEN DEFAULT_WEIGHTS.yellow
    ELSE IF l \in DOMAIN c.letter_counts /\ c.letter_counts[l][2] = 0 THEN DEFAULT_WEIGHTS.gray
    ELSE DEFAULT_WEIGHTS.unused

RECURSIVE StateWeightSum(_, _)
StateWeightSum(letters, c) ==
    IF letters = {} THEN 0
    ELSE LET l == CHOOSE x \in letters : TRUE
         IN  StateWeight(l, c) + StateWeightSum(letters \ {l}, c)

Distinct(w) == {w[i] : i \in 1 .. WordLen}

\* a score equals 2 x the frequency sum + a whole number
IsScore(score, table, w, whole) ==
    LET sum == FreqSum(table, w, 0)
    IN  score[1] * sum[2] = (2 * sum[1] + whole * sum[2]) * score[2]

TrapMode == Cardinality(DOMAIN request.constraint.greens) >= 3

\* C24: the score of a word scored as a candidate is 2 x the sum over
\* positions of the frequency of its letter there (0 when the table lacks the
\* letter) plus one state weight per distinct letter, green before yellow
\* before gray before unused; no exploration bonus, duplicate penalty or trap
\* bonus enters it, trap mode or not.
C24_CandidateScore ==
    Returned =>
        \A k \in 1 .. Len(trace.scored_candidates) :
            LET w == trace.scored_candidates[k][1]
            IN  IsScore(trace.scored_candidates[k][2], freqs.table, w,
                        StateWeightSum(Distinct(w), request.constraint))

\* trap mode, and a candidate with a repeated letter and an unused letter
C24_Witness ==
    /\ Returned
    /\ TrapMode
    /\ \E k \in 1 .. Len(trace.scored_candidates) :
        LET w == trace.scored_candidates[k][1]
        IN  /\ Cardinality(Distinct(w)) < WordLen
            /\ \E l \in Distinct(w) :
                StateWeight(l, request.constraint) = DEFAULT_WEIGHTS.unused
            /\ \E l \in Distinct(w) :
                StateWeight(l, request.constraint) = DEFAULT_WEIGHTS.green

Unknown(w, c) ==
    {l \in Distinct(w) :
        /\ ~ \E p \in DOMAIN c.greens : c.greens[p] = l
        /\ l \notin DOMAIN c.yellows
        /\ ~(l \in DOMAIN c.letter_counts /\ c.letter_counts[l][2] = 0)}

\* d: 5 - distinct letters, less 1 for each distinct letter whose min_count
\* exceeds 1, never below 0
RECURSIVE Relieved(_, _)
Relieved(d, times) == IF times = 0 THEN d ELSE Relieved(IF d > 0 THEN d - 1 ELSE 0, times - 1)

DuplicateCount(w, c) ==
    Relieved(5 - Cardinality(Distinct(w)),
             Cardinality({l \in Distinct(w) :
                             l \in DOMAIN c.letter_counts /\ c.letter_counts[l][1] > 1}))

\* non-green positions where the word's letter is one that some candidate
\* has at some non-green position
TrapCoverage(w, c, supplied) ==
    LET free == Positions \ DOMAIN c.greens
    IN  Cardinality({p \in free :
            \E i \in 1 .. Len(supplied) : \E q \in free : supplied[i][q + 1] = w[p + 1]})

----------------------------------------------------------------------------
(* Appending a round: the accumulated constraint, the constraint of the new
   round, their merge, and the word list filtered by each of the three *)

\* the words over a list of characters, in sorted order
SortedWordsOver(chars) ==
    [k \in 1 .. (Len(chars) ^ WordLen) |->
        [i \in 1 .. WordLen |->
            chars[(((k - 1) \div (Len(chars) ^ (WordLen - i))) % Len(chars)) + 1]]]

\* every word over the letters of the guesses and one letter no guess holds
AppendWords == SortedWordsOver(<<"a", "b", "c", "z">>)

ThirdGuess == <<"c", "a", "a", "b", "b">>

\* feedback of the two rounds that come before a third
EarlierFeedback ==
    {<<<<YELLOW, GRAY, YELLOW, YELLOW, GRAY>>, <<YELLOW, YELLOW, YELLOW, GRAY, GRAY>>>>,
     <<<<YELLOW, GRAY, YELLOW, YELLOW, GRAY>>, <<YELLOW, YELLOW, YELLOW, GRAY, GREEN>>>>,
     <<<<YELLOW, GRAY, YELLOW, YELLOW, GRAY>>, <<YELLOW, GREEN, YELLOW, GRAY, GREEN>>>>,
     <<<<GREEN, GRAY, GREEN, YELLOW, YELLOW>>, <<GREEN, GRAY, GREEN, GRAY, GREEN>>>>}

\* feedback of a pair of rounds: every colouring with a gray second column
PairFeedback == {f \in AllFeedback : f[2] = GRAY}

InitAppend ==
    /\ pc = "rounds"
    /\ \/ \E f1, f2 \in PairFeedback :
            rounds = <<FeedbackRound(FirstGuess, f1), FeedbackRound(SecondGuess, f2)>>
       \/ \E e \in EarlierFeedback, f3 \in AllFeedback :
            rounds = <<FeedbackRound(FirstGuess, e[1]), FeedbackRound(SecondGuess, e[2]),
                       FeedbackRound(ThirdGuess, f3)>>
    /\ guess = <<>>
    /\ feedback = <<>>
    /\ error = "none"
    /\ derived = <<>>
    /\ merged = EmptyConstraint
    /\ answer = <<>>
    /\ candidates = <<>>
    /\ NoEngine

\* the rounds before the last have merged into A; the last one gives B
Accumulated == merge_constraints(SubSeq(derived, 1, Len(derived) - 1))
Appended == derived[Len(derived)]

\* filter_candidates by A, by B and, when the merge returned, by merge(A, B)
FilterEach ==
    /\ pc = "merged"
    /\ ~Raised(Accumulated)
    /\ candidates' =
         [before |-> filter_candidates(AppendWords, Accumulated),
          round |-> filter_candidates(AppendWords, Appended),
          after |-> IF Raised(merged) THEN <<>>
                    ELSE filter_candidates(AppendWords, merged)]
    /\ pc' = "filtered"
    /\ UNCHANGED <<guess, feedback, error, rounds, derived, merged, answer>>
    /\ UNCHANGED engineVars

NextAppend == DeriveAll \/ MergeAll \/ FilterEach

SpecAppend == InitAppend /\ [][NextAppend]_vars

AppendFiltered == pc = "filtered" /\ merged = merge(Accumulated, Appended)

\* C27: whenever merge(A, B) does not raise, filtering a word list by the
\* merged constraint keeps exactly the words that filtering by A keeps and
\* filtering by B keeps; so appending a round never adds a candidate.
C27_MergeIsIntersection ==
    (pc = "filtered" /\ ~Raised(merged)) =>
        /\ merged = merge(Accumulated, Appended)
        /\ Range(candidates.after) = Range(candidates.before) \cap Range(candidates.round)
        /\ Range(candidates.after) \subseteq Range(candidates.before)

\* both operands keep words the other rejects, the accumulated constraint
\* comes from a merge, and the merged constraint keeps some word
C27_Witness ==
    /\ AppendFiltered
    /\ ~Raised(merged)
    /\ Len(derived) = 3
    /\ Range(candidates.before) \ Range(candidates.round) # {}
    /\ Range(candidates.round) \ Range(candidates.before) # {}
    /\ candidates.after # <<>>

\* C28: a conflict error is never a false alarm: whenever merge(A, B) raises,
\* no 5-letter word satisfies both A and B under the filter predicate.
C28_NoFalseAlarm ==
    (pc = "filtered" /\ Raised(merged)) =>
        /\ Raised(merge(Accumulated, Appended))
        /\ Range(candidates.before) \cap Range(candidates.round) = {}

\* a merge raises on its count test although each operand keeps words
C28_Witness ==
    /\ AppendFiltered
    /\ Raised(merged)
    /\ merged.conflict = "count"
    /\ candidates.before # <<>>
    /\ candidates.round # <<>>

----------------------------------------------------------------------------
(* Cache coherence, checked under SpecStats *)

\* the position frequencies of a set of words
SetFrequencies(S) ==
    [pos \in Positions |->
        [letter \in {w[pos + 1] : w \in S} |->
            Frac(Cardinality({w \in S : w[pos + 1] = letter}), Cardinality(S))]]

AtOrAbove(entry) == IsGet(entry) /\ Len(entry.candidates) >= entry.threshold

\* C30: over any sequence of get_position_frequencies calls on duplicate-free
\* lists and clear_cache calls, every cache entry keyed by a word set holds
\* the position frequencies of that set, every returned table is what a fresh
\* computation for the request gives, the fallback table never changes, and
\* clear_cache leaves the cache empty, so that the next request at or above
\* the threshold recomputes.
C30_CacheCoherence ==
    pc = "stats" =>
        /\ \A key \in DOMAIN cache : cache[key].table = SetFrequencies(key)
        /\ \A i \in 1 .. Len(log) :
            IsGet(log[i]) =>
                log[i].result.table =
                    (IF Len(log[i].candidates) < log[i].threshold
                     THEN SetFrequencies(Range(full_dictionary))
                     ELSE SetFrequencies(Range(log[i].candidates)))
        /\ full_dict_stats = TableObject(0, SetFrequencies(Range(full_dictionary)))
        /\ (log # <<>> /\ log[Len(log)].op = "clear_cache") => cache = <<>>
        /\ \A i, j \in 1 .. Len(log) :
            (/\ i < j
             /\ log[i].op = "clear_cache"
             /\ AtOrAbove(log[j])
             /\ \A k \in (i + 1) .. (j - 1) : ~AtOrAbove(log[k]))
            => (log[j].computed /\ log[j].size_before = 0)

\* a table is computed and cached, the cache is cleared, and the same words
\* are computed again
C30_Witness ==
    /\ pc = "stats"
    /\ Len(log) = 3
    /\ log[1].computed
    /\ log[2].op = "clear_cache"
    /\ log[2].size_before = 1
    /\ log[3].computed
    /\ WordSet(log[3].candidates) = WordSet(log[1].candidates)
    /\ cache # <<>>

----------------------------------------------------------------------------
(* Submitting rounds in the application, checked under SpecSession *)

\* the last event was Return and the round was accepted
SubmitAccepted == pc = "session" /\ request.op = "Return" /\ error = "none"

\* the last event was Return and a warning or an error was shown
SubmitFailed == pc = "session" /\ request.op = "Return" /\ error # "none"

\* every cell of the row holds a letter
FullRow(row) == \A col \in Positions : state.history_grid_letters[row][col] \in LowerAscii

FullRows == {row \in GridRows : FullRow(row)}

\* the rounds of the full rows of the grid, in row order
GridRounds ==
    [k \in 1 .. Cardinality(FullRows) |->
        LET row == CHOOSE r \in FullRows : Cardinality({q \in FullRows : q < r}) = k - 1
        IN  FeedbackRound([i \in 1 .. WordLen |-> state.history_grid_letters[row][i - 1]],
                          [i \in 1 .. WordLen |-> state.history_grid_colors[row][i - 1]])]

\* merge folded from the empty constraint over the first k rounds
RECURSIVE FoldTo(_, _)
FoldTo(list, k) ==
    IF k = 0 THEN EmptyConstraint
    ELSE MergeCall(FoldTo(list, k - 1), to_constraint(list[k]))

\* C23: after every accepted submit, whatever events came before it,
\* current_constraint is merge folded from the empty constraint over the
\* constraints of the complete rows in row order, history is those rounds,
\* candidates is filter_candidates(dictionary, current_constraint) and
\* round_number is the number of complete rows plus 1.
C23_SubmitRecomputes ==
    SubmitAccepted =>
        /\ state.history = GridRounds
        /\ state.current_constraint = FoldTo(GridRounds, Len(GridRounds))
        /\ state.candidates = filter_candidates(full_dictionary, state.current_constraint)
        /\ state.round_number = Cardinality(FullRows) + 1

\* an accepted submit that finds none of the rounds of the submit before it,
\* and whose constraint has lost a letter the earlier constraint bounded
C23_Witness ==
    /\ SubmitAccepted
    /\ trace.before.history # <<>>
    /\ \A k \in 1 .. Len(trace.before.history) :
        trace.before.history[k] \notin Range(state.history)
    /\ DOMAIN trace.before.current_constraint.letter_counts
         \ DOMAIN state.current_constraint.letter_counts # {}

\* C26: after an accepted submit that finds fewer than 6 complete rows, the
\* focus is at column 0 of a row that was not counted as complete.
C26_FocusOnEmptyRow ==
    (SubmitAccepted /\ Len(state.history) < 6) =>
        /\ state.focused_col = 0
        /\ ~FullRow(state.focused_row)

\* C29: a submit that fails (no complete row, or a round or a merge that
\* raises) leaves history, current_constraint, round_number, candidates and
\* the focus as they were.
C29_FailedSubmitKeepsState ==
    [][(request'.op = "Return" /\ error' # "none") =>
          /\ state'.history = state.history
          /\ state'.current_constraint = state.current_constraint
          /\ state'.round_number = state.round_number
          /\ state'.candidates = state.candidates
          /\ state'.focused_row = state.focused_row
          /\ state'.focused_col = state.focused_col]_vars

\* a merge raises in a submit that follows an accepted one
C29_Witness ==
    /\ SubmitFailed
    /\ error = "Error"
    /\ Len(GridRounds) = 2
    /\ trace.before.history # <<>>
    /\ state = trace.before

====
